---- MODULE Spec2Model ----
(***************************************************************************)
(* Verification-and-extraction pipeline of the SBOM Gatekeeper provider:   *)
(* cmd/provider/main.go, pkg/provider/server.go, pkg/provider/verifier.go. *)
(*                                                                         *)
(* Strings that the code splits are sequences of tokens in which the       *)
(* delimiter "|" is a token of its own; the empty string is <<>>.          *)
(* A context carries the timeout it was created with and its Err().        *)
(***************************************************************************)
EXTENDS Naturals, Integers, Sequences, FiniteSets, TLC

VARIABLES
    pc,            \* position of the process / handler
    referrersEnv,  \* os.Getenv("USE_REFERRERS_API"): empty when it is not set
    useReferrers,  \* AttestationVerifier.useReferrers
    vKeychain,     \* AttestationVerifier.keychain (default credential source)
    trustedRoot,   \* AttestationVerifier.trustedRoot
    rootFetches,   \* number of root.FetchTrustedRoot() calls made so far
    keys,          \* providerReq.Request.Keys of the request in flight
    items,         \* handleVerify: items
    idx,           \* handleVerify: position of the range loop over Keys (1-based)
    status,        \* HTTP status written by handleVerify (0: none yet)
    timeout,       \* Server.timeout
    ctx,           \* processImageRef: ctx
    certIdentity,  \* processImageRef: certIdentity, the parameter of the call
    certOidcIssuer, \* processImageRef: certOidcIssuer, the parameter of the call
    checkOpts,     \* VerifyAndExtractSBOMWithParams: checkOpts
    attestations,  \* VerifyAndExtractSBOMWithParams: attestations
    fetchErr,      \* VerifyAndExtractSBOMWithParams: fetchErr
    item,          \* processImageRef: the returned Item
    calls,         \* history: calls to cosign.VerifyImageAttestations for this key
    extracted,     \* history: extractSBOMFromAttestation calls for this key
    k8sCalls,      \* history: calls to the Kubernetes API for this key
    payload,       \* extractSBOMFromAttestation run on its own: the argument
    result         \* extractSBOMFromAttestation run on its own: what it returned

vars == <<pc, referrersEnv, useReferrers, vKeychain, trustedRoot, rootFetches,
          keys, items,
          idx, status, timeout, ctx, certIdentity, certOidcIssuer, checkOpts,
          attestations, fetchErr, item, calls, extracted, k8sCalls,
          payload, result>>

(***************************************************************************)
(* Bounds of the model.                                                    *)
(***************************************************************************)
MaxKeys == 2      \* longest batch of keys in one request
MaxAtts == 2      \* largest verified attestation set
MaxPackages == 2  \* most packages in an SPDX document
MaxLicenses == 2  \* most license entries of a CycloneDX component

(***************************************************************************)
(* Strings.                                                                *)
(***************************************************************************)
PIPE == "|"
EmptyString == <<>>

RECURSIVE IndexOf(_, _, _)
\* strings.Index: position of the first tok in s at or after i, 0 when none
IndexOf(s, tok, i) ==
    IF i > Len(s) THEN 0
    ELSE IF s[i] = tok THEN i
    ELSE IndexOf(s, tok, i + 1)

RECURSIVE SplitN(_, _)
\* strings.SplitN(s, "|", n) for n > 0, and for n < 0 (no limit)
SplitN(s, n) ==
    LET p == IndexOf(s, PIPE, 1) IN
    IF n = 1 \/ p = 0 THEN <<s>>
    ELSE <<SubSeq(s, 1, p - 1)>> \o SplitN(SubSeq(s, p + 1, Len(s)), n - 1)

\* strings.Split(s, "|")
Split(s) == SplitN(s, -1)

(***************************************************************************)
(* JSON texts.  A byte string is either not JSON at all (ok = FALSE) or a  *)
(* JSON value v.  A JSON string carries its text s and dec, what           *)
(* base64.StdEncoding.DecodeString makes of that text.                     *)
(***************************************************************************)
NotBase64 == [ok |-> FALSE]
JStr(s) == [k |-> "str", s |-> s, dec |-> NotBase64]
JNum == [k |-> "num"]
JNull == [k |-> "null"]
JArr(a) == [k |-> "arr", a |-> a]
JObj(f) == [k |-> "obj", f |-> f]
Text(v) == [ok |-> TRUE, v |-> v]
Garbage == [ok |-> FALSE]
\* json.RawMessage of a field that the document does not have
NoBytes == [ok |-> FALSE]

\* base64.StdEncoding.EncodeToString(b), as a JSON string
EncodeToString(b) ==
    [k |-> "str", s |-> <<"base64">>, dec |-> [ok |-> TRUE, bytes |-> b]]

\* base64.StdEncoding.DecodeString of the text of JSON string js
DecodeString(js) == js.dec

FieldKind(o, n) == IF n \in DOMAIN o.f THEN o.f[n].k ELSE "absent"

\* encoding/json stores a string, or leaves "" for null and for a missing field
StrField(o, n) == IF FieldKind(o, n) = "str" THEN o.f[n].s ELSE EmptyString

\* encoding/json reports an UnmarshalTypeError for any other kind
StrFieldErr(o, n) == FieldKind(o, n) \notin {"absent", "null", "str"}
ArrFieldErr(o, n) == FieldKind(o, n) \notin {"absent", "null", "arr"}
ObjFieldErr(o, n) == FieldKind(o, n) \notin {"absent", "null", "obj"}

\* json.Unmarshal into a struct fails on invalid JSON and on a top-level value
\* that is neither an object nor null
TopErr(b) == ~b.ok \/ b.v.k \notin {"obj", "null"}
IsObj(b) == b.ok /\ b.v.k = "obj"

JBool == [k |-> "bool"]

\* the elements of array field n of object o (none when it is missing or null)
ArrField(o, n) == IF FieldKind(o, n) = "arr" THEN o.f[n].a ELSE <<>>

\* a json error, as text
JSONError == <<"json: cannot unmarshal">>
NoError == EmptyString

(***************************************************************************)
(* types.go: the unified model and the two SBOM schemas.                   *)
(***************************************************************************)
UnifiedPackage(name, version, license, purl) ==
    [Name |-> name, Version |-> version, License |-> license, PURL |-> purl]

UnifiedSBOM(format, packages) == [Format |-> format, Packages |-> packages]

\* the zero UnifiedSBOM, standing for a nil *UnifiedSBOM
NilSBOM == UnifiedSBOM(EmptyString, <<>>)

\* json.Unmarshal of one element of "packages" into an SPDXPackage fails
SPDXPackageErr(e) ==
    \/ e.k \notin {"obj", "null"}
    \/ /\ e.k = "obj"
       /\ \/ \E n \in {"SPDXID", "name", "versionInfo", "supplier", "downloadLocation",
                       "licenseConcluded", "licenseDeclared", "copyrightText"} :
                 StrFieldErr(e, n)
          \/ FieldKind(e, "filesAnalyzed") \notin {"absent", "null", "bool"}
          \/ ArrFieldErr(e, "externalRefs")

\* json.Unmarshal(predicate, &sbom) with sbom an SPDXDocument fails
SPDXDocumentErr(b) ==
    \/ TopErr(b)
    \/ /\ IsObj(b)
       /\ \/ \E n \in {"SPDXID", "spdxVersion", "name", "dataLicense",
                       "documentNamespace"} : StrFieldErr(b.v, n)
          \/ ObjFieldErr(b.v, "creationInfo")
          \/ ArrFieldErr(b.v, "packages")
          \/ \E i \in 1..Len(ArrField(b.v, "packages")) :
                 SPDXPackageErr(ArrField(b.v, "packages")[i])

\* the fields of an element of an array, "" for those a null element leaves unset
ElemStr(e, n) == IF e.k = "obj" THEN StrField(e, n) ELSE EmptyString

\* SPDXLicense with licenseDeclared taken before licenseConcluded
SPDXLicenseDeclaredFirst(pkg) ==
    IF ElemStr(pkg, "licenseDeclared") = EmptyString
    THEN ElemStr(pkg, "licenseConcluded")
    ELSE ElemStr(pkg, "licenseDeclared")

\* the license that extractAndNormalizeSPDX gives one package
SPDXLicense(pkg) ==
    IF ElemStr(pkg, "licenseConcluded") = EmptyString
    THEN ElemStr(pkg, "licenseDeclared")
    ELSE ElemStr(pkg, "licenseConcluded")

RECURSIVE SPDXPackagesDistinct(_)
\* SPDXPackages with a package that repeats an earlier one left out
SPDXPackagesDistinct(pkgs) ==
    IF pkgs = <<>> THEN <<>>
    ELSE LET front == SPDXPackagesDistinct(SubSeq(pkgs, 1, Len(pkgs) - 1))
             pkg == pkgs[Len(pkgs)]
             last == UnifiedPackage(ElemStr(pkg, "name"),
                                    ElemStr(pkg, "versionInfo"),
                                    SPDXLicense(pkg),
                                    EmptyString)
         IN IF \E i \in 1..Len(front) : front[i] = last THEN front
            ELSE Append(front, last)

\* lines 270-281: one UnifiedPackage appended per element of sbom.Packages
SPDXPackages(pkgs) ==
    [i \in 1..Len(pkgs) |->
        UnifiedPackage(ElemStr(pkgs[i], "name"),
                       ElemStr(pkgs[i], "versionInfo"),
                       SPDXLicense(pkgs[i]),
                       EmptyString)]

extractAndNormalizeSPDX(predicate) ==
    IF SPDXDocumentErr(predicate)
    THEN [nonNil |-> FALSE, sbom |-> NilSBOM,
          err |-> <<"failed to parse SPDX SBOM: ">> \o JSONError]
    ELSE LET pkgs == IF IsObj(predicate) THEN ArrField(predicate.v, "packages")
                     ELSE <<>>
         IN [nonNil |-> TRUE,
             sbom |-> UnifiedSBOM(<<"spdx">>, SPDXPackages(pkgs)),
             err |-> NoError]

\* json.Unmarshal of one element of "licenses" into a CycloneDXLicense fails
CycloneDXLicenseErr(e) ==
    \/ e.k \notin {"obj", "null"}
    \/ /\ e.k = "obj"
       /\ \/ ObjFieldErr(e, "license")
          \/ /\ FieldKind(e, "license") = "obj"
             /\ \E n \in {"id", "name"} : StrFieldErr(e.f["license"], n)

\* json.Unmarshal of one element of "components" into a CycloneDXComponent fails
CycloneDXComponentErr(e) ==
    \/ e.k \notin {"obj", "null"}
    \/ /\ e.k = "obj"
       /\ \/ \E n \in {"type", "name", "version", "purl"} : StrFieldErr(e, n)
          \/ ArrFieldErr(e, "licenses")
          \/ ArrFieldErr(e, "hashes")
          \/ \E i \in 1..Len(ArrField(e, "licenses")) :
                 CycloneDXLicenseErr(ArrField(e, "licenses")[i])

\* json.Unmarshal(predicate, &sbom) with sbom a CycloneDXBOM fails
CycloneDXBOMErr(b) ==
    \/ TopErr(b)
    \/ /\ IsObj(b)
       /\ \/ \E n \in {"bomFormat", "specVersion"} : StrFieldErr(b.v, n)
          \/ FieldKind(b.v, "version") \notin {"absent", "null", "num"}
          \/ ObjFieldErr(b.v, "metadata")
          \/ ArrFieldErr(b.v, "components")
          \/ \E i \in 1..Len(ArrField(b.v, "components")) :
                 CycloneDXComponentErr(ArrField(b.v, "components")[i])

\* comp.Licenses[i].License.ID and .Name
LicenseInfoStr(lic, n) ==
    IF lic.k = "obj" /\ FieldKind(lic, "license") = "obj"
    THEN StrField(lic.f["license"], n)
    ELSE EmptyString

\* CycloneDXLicense with the last license entry read instead of the first
CycloneDXLicenseOfLast(comp) ==
    LET licenses == IF comp.k = "obj" THEN ArrField(comp, "licenses") ELSE <<>>
        n == Len(licenses)
    IN IF n > 0
       THEN IF LicenseInfoStr(licenses[n], "id") # EmptyString
            THEN LicenseInfoStr(licenses[n], "id")
            ELSE IF LicenseInfoStr(licenses[n], "name") # EmptyString
                 THEN LicenseInfoStr(licenses[n], "name")
                 ELSE EmptyString
       ELSE EmptyString

\* the license that extractAndNormalizeCycloneDX gives one component
CycloneDXLicense(comp) ==
    LET licenses == IF comp.k = "obj" THEN ArrField(comp, "licenses") ELSE <<>> IN
    IF Len(licenses) > 0
    THEN IF LicenseInfoStr(licenses[1], "id") # EmptyString
         THEN LicenseInfoStr(licenses[1], "id")
         ELSE IF LicenseInfoStr(licenses[1], "name") # EmptyString
              THEN LicenseInfoStr(licenses[1], "name")
              ELSE EmptyString
    ELSE EmptyString

extractAndNormalizeCycloneDX(predicate) ==
    IF CycloneDXBOMErr(predicate)
    THEN [nonNil |-> FALSE, sbom |-> NilSBOM,
          err |-> <<"failed to parse CycloneDX SBOM: ">> \o JSONError]
    ELSE LET comps == IF IsObj(predicate) THEN ArrField(predicate.v, "components")
                      ELSE <<>>
         IN [nonNil |-> TRUE,
             sbom |-> UnifiedSBOM(<<"cyclonedx">>,
                        [i \in 1..Len(comps) |->
                            UnifiedPackage(ElemStr(comps[i], "name"),
                                           ElemStr(comps[i], "version"),
                                           CycloneDXLicense(comps[i]),
                                           ElemStr(comps[i], "purl"))]),
             err |-> NoError]

(***************************************************************************)
(* verifier.go: extractSBOMFromAttestation.                                *)
(***************************************************************************)
\* json.Unmarshal(attestation, &envelope): err, and envelope.Payload
UnmarshalEnvelope(b) ==
    [err |-> \/ TopErr(b)
             \/ /\ IsObj(b)
                /\ \/ StrFieldErr(b.v, "payload")
                   \/ StrFieldErr(b.v, "payloadType")
                   \/ ArrFieldErr(b.v, "signatures"),
     Payload |-> IF IsObj(b) /\ FieldKind(b.v, "payload") = "str"
                 THEN b.v.f["payload"]
                 ELSE JStr(EmptyString)]

\* json.Unmarshal(attestation, &statement): err, PredicateType and Predicate
UnmarshalStatement(b) ==
    [err |-> \/ TopErr(b)
             \/ /\ IsObj(b)
                /\ \/ StrFieldErr(b.v, "_type")
                   \/ StrFieldErr(b.v, "predicateType"),
     PredicateType |-> IF IsObj(b) THEN StrField(b.v, "predicateType")
                       ELSE EmptyString,
     Predicate |-> IF IsObj(b) /\ FieldKind(b.v, "predicate") # "absent"
                   THEN Text(b.v.f["predicate"])
                   ELSE NoBytes]

SPDXPredicateTypes ==
    { <<"https://spdx.dev/Document">>, <<"https://spdx.dev/Document/v2.3">>,
      <<"spdx">> }

CycloneDXPredicateTypes ==
    { <<"https://cyclonedx.org/bom">>, <<"https://cyclonedx.org/schema">>,
      <<"cyclonedx">> }

\* Unwrap with the envelope recognized and its payload left where it is
UnwrapNoDecode(attestation) == [err |-> FALSE, bytes |-> attestation]

\* the envelope step: the bytes the statement is parsed from, or a decode error
Unwrap(attestation) ==
    LET envelope == UnmarshalEnvelope(attestation) IN
    IF ~envelope.err /\ envelope.Payload.s # EmptyString
    THEN LET decoded == DecodeString(envelope.Payload) IN
         IF ~decoded.ok
         THEN [err |-> TRUE, bytes |-> attestation]
         ELSE [err |-> FALSE, bytes |-> decoded.bytes]
    ELSE [err |-> FALSE, bytes |-> attestation]

\* Dispatch with the default branch of the switch returning an error
DispatchUnknownIsError(statement) ==
    IF statement.PredicateType \in SPDXPredicateTypes
    THEN [extractAndNormalizeSPDX(statement.Predicate) EXCEPT !.nonNil = TRUE]
    ELSE IF statement.PredicateType \in CycloneDXPredicateTypes
         THEN [extractAndNormalizeCycloneDX(statement.Predicate)
                  EXCEPT !.nonNil = TRUE]
         ELSE [nonNil |-> FALSE, sbom |-> NilSBOM,
               err |-> <<"unsupported predicate type: ">> \o statement.PredicateType]

\* the switch on statement.PredicateType
Dispatch(statement) ==
    IF statement.PredicateType \in SPDXPredicateTypes
    THEN [extractAndNormalizeSPDX(statement.Predicate) EXCEPT !.nonNil = TRUE]
    ELSE IF statement.PredicateType \in CycloneDXPredicateTypes
         THEN [extractAndNormalizeCycloneDX(statement.Predicate)
                  EXCEPT !.nonNil = TRUE]
         ELSE [nonNil |-> FALSE, sbom |-> NilSBOM, err |-> NoError]

\* (interface{}, error): nonNil tells whether the interface value is non-nil
extractSBOMFromAttestation(attestation) ==
    LET unwrapped == Unwrap(attestation) IN
    IF unwrapped.err
    THEN [nonNil |-> FALSE, sbom |-> NilSBOM,
          err |-> <<"failed to decode DSSE payload: ", "illegal base64 data">>]
    ELSE LET statement == UnmarshalStatement(unwrapped.bytes) IN
         IF statement.err
         THEN [nonNil |-> FALSE, sbom |-> NilSBOM,
               err |-> <<"failed to parse attestation statement: ">> \o JSONError]
         ELSE Dispatch(statement)

(***************************************************************************)
(* verifier.go: the key, the credentials and the image reference.          *)
(***************************************************************************)
\* the texts that may stand in the secret-list segment, as JSON
SecretListJSON(seg) ==
    IF seg = <<"[]">> THEN Text(JArr(<<>>))
    ELSE IF seg = <<"[\"s1\"]">> THEN Text(JArr(<<JStr(<<"s1">>)>>))
    ELSE IF seg = <<"[\"s1\",\"s2\"]">>
         THEN Text(JArr(<<JStr(<<"s1">>), JStr(<<"s2">>)>>))
    ELSE IF seg = <<"[\"s1\",7]">> THEN Text(JArr(<<JStr(<<"s1">>), JNum>>))
    ELSE IF seg = <<"null">> THEN Text(JNull)
    ELSE IF seg = <<"{}">> THEN Text(JObj([none |-> JNull]))
    ELSE IF seg = <<"\"s1\"">> THEN Text(JStr(<<"s1">>))
    ELSE Garbage

\* json.Unmarshal(b, &secretNames) with secretNames a nil []string: a string
\* element is stored, null leaves "", any other element leaves "" and is an error
UnmarshalStringList(b) ==
    IF ~b.ok THEN [err |-> TRUE, names |-> <<>>]
    ELSE IF b.v.k = "null" THEN [err |-> FALSE, names |-> <<>>]
    ELSE IF b.v.k # "arr" THEN [err |-> TRUE, names |-> <<>>]
    ELSE [err |-> \E i \in 1..Len(b.v.a) : b.v.a[i].k \notin {"str", "null"},
          names |-> [i \in 1..Len(b.v.a) |->
                        IF b.v.a[i].k = "str" THEN b.v.a[i].s ELSE EmptyString]]

\* lines 73-81: the secret names decoded from the key
SecretNamesOf(key) ==
    LET parts == SplitN(key, 4) IN
    IF Len(parts) >= 2 /\ parts[2] # EmptyString
    THEN UnmarshalStringList(SecretListJSON(parts[2])).names
    ELSE <<>>

\* the key's third segment is taken whenever the key has one, the parameter
\* only otherwise
IdentityOfKeyFirst(key, identity) ==
    LET parts == SplitN(key, 4) IN
    IF Len(parts) >= 3 THEN parts[3] ELSE identity

\* lines 83-86: the certificate identity that is verified against
IdentityOf(key, identity) ==
    LET parts == SplitN(key, 4) IN
    IF identity = EmptyString /\ Len(parts) >= 3 THEN parts[3] ELSE identity

\* lines 87-89: the OIDC issuer that is verified against
IssuerOf(key, issuer) ==
    LET parts == SplitN(key, 4) IN
    IF issuer = EmptyString /\ Len(parts) >= 4 THEN parts[4]
    ELSE issuer

\* image references that name.ParseReference accepts
WellFormedRefs == {"img-a", "img-b"}

\* name.ParseReference(imageRef)
ParseReference(imageRef) ==
    IF Len(imageRef) = 1 /\ imageRef[1] \in WellFormedRefs
    THEN [err |-> NoError, ref |-> imageRef]
    ELSE [err |-> <<"could not parse reference">>, ref |-> EmptyString]

\* credential sources, in the order they are consulted.  The process-default
\* source (NewAttestationVerifier lines 43-52) is authn.DefaultKeychain, joined
\* by the in-cluster keychain when one can be created; the pipeline only hands
\* it on, so it is one opaque source here
DefaultKeychain == <<[kind |-> "default", name |-> EmptyString]>>
SecretKeychain(secrets) ==
    [i \in 1..Len(secrets) |-> [kind |-> "secret", name |-> secrets[i]]]

\* the two sources combined with b consulted before a
NewMultiKeychainReversed(a, b) == b \o a

\* authn.NewMultiKeychain(a, b): a is consulted before b
NewMultiKeychain(a, b) == a \o b

\* what the Kubernetes API answers while one key's credentials are resolved:
\* config, client, build tell whether rest.InClusterConfig, kubernetes.NewForConfig
\* and k8schain.NewFromPullSecrets succeed, found is the set of secrets that exist
K8sAnswers ==
    [config : BOOLEAN, client : BOOLEAN, build : BOOLEAN,
     found : SUBSET {<<"s1">>, <<"s2">>}]

RECURSIVE FetchSecretsStopAtFailure(_, _)
\* FetchSecrets with the first failed Get ending the loop
FetchSecretsStopAtFailure(secretNames, found) ==
    IF secretNames = <<>> \/ Head(secretNames) \notin found THEN <<>>
    ELSE <<Head(secretNames)>> \o FetchSecretsStopAtFailure(Tail(secretNames), found)

RECURSIVE FetchSecrets(_, _)
\* lines 195-203: the secrets fetched, in the order of secretNames
FetchSecrets(secretNames, found) ==
    IF secretNames = <<>> THEN <<>>
    ELSE (IF Head(secretNames) \in found THEN <<Head(secretNames)>> ELSE <<>>)
         \o FetchSecrets(Tail(secretNames), found)

\* one call to the Kubernetes API and whether it succeeded
APICall(fn, arg, ok) == [fn |-> fn, arg |-> arg, ok |-> ok]

\* createKeychainWithSecrets without the return of lines 172-174: the
\* connection is made whatever the list holds
createKeychainAlwaysConnects(secretNames, default, k8s) ==
    IF ~k8s.config
    THEN [keychain |-> <<>>, err |-> <<"failed to get in-cluster config: ">>,
          api |-> <<APICall("InClusterConfig", EmptyString, FALSE)>>]
    ELSE IF ~k8s.client
    THEN [keychain |-> <<>>, err |-> <<"failed to create kubernetes client: ">>,
          api |-> <<APICall("InClusterConfig", EmptyString, TRUE),
                    APICall("NewForConfig", EmptyString, FALSE)>>]
    ELSE LET secrets == FetchSecrets(secretNames, k8s.found)
             gets == [i \in 1..Len(secretNames) |->
                         APICall("Secrets.Get", secretNames[i],
                                 secretNames[i] \in k8s.found)]
             api == <<APICall("InClusterConfig", EmptyString, TRUE),
                      APICall("NewForConfig", EmptyString, TRUE)>> \o gets
         IN IF Len(secrets) = 0
            THEN [keychain |-> default, err |-> NoError, api |-> api]
            ELSE IF ~k8s.build
            THEN [keychain |-> <<>>,
                  err |-> <<"failed to create keychain from secrets: ">>,
                  api |-> api \o <<APICall("NewFromPullSecrets", EmptyString, FALSE)>>]
            ELSE [keychain |-> NewMultiKeychain(SecretKeychain(secrets), default),
                  err |-> NoError,
                  api |-> api \o <<APICall("NewFromPullSecrets", EmptyString, TRUE)>>]

\* createKeychainWithSecrets: the keychain, the error and the API calls made
createKeychainWithSecrets(secretNames, default, k8s) ==
    IF Len(secretNames) = 0
    THEN [keychain |-> default, err |-> NoError, api |-> <<>>]
    ELSE IF ~k8s.config
    THEN [keychain |-> <<>>, err |-> <<"failed to get in-cluster config: ">>,
          api |-> <<APICall("InClusterConfig", EmptyString, FALSE)>>]
    ELSE IF ~k8s.client
    THEN [keychain |-> <<>>, err |-> <<"failed to create kubernetes client: ">>,
          api |-> <<APICall("InClusterConfig", EmptyString, TRUE),
                    APICall("NewForConfig", EmptyString, FALSE)>>]
    ELSE LET secrets == FetchSecrets(secretNames, k8s.found)
             gets == [i \in 1..Len(secretNames) |->
                         APICall("Secrets.Get", secretNames[i],
                                 secretNames[i] \in k8s.found)]
             api == <<APICall("InClusterConfig", EmptyString, TRUE),
                      APICall("NewForConfig", EmptyString, TRUE)>> \o gets
         IN IF Len(secrets) = 0
            THEN [keychain |-> default, err |-> NoError, api |-> api]
            ELSE IF ~k8s.build
            THEN [keychain |-> <<>>,
                  err |-> <<"failed to create keychain from secrets: ">>,
                  api |-> api \o <<APICall("NewFromPullSecrets", EmptyString, FALSE)>>]
            ELSE [keychain |-> NewMultiKeychain(SecretKeychain(secrets), default),
                  err |-> NoError,
                  api |-> api \o <<APICall("NewFromPullSecrets", EmptyString, TRUE)>>]

\* lines 94-99: the keychain verification runs with
KeychainFor(secretNames, default, k8s) ==
    LET r == createKeychainWithSecrets(secretNames, default, k8s) IN
    IF r.err # NoError THEN default ELSE r.keychain

\* lines 121-127: checkOpts.Identities
IdentitiesFor(identity, issuer) ==
    IF identity # EmptyString \/ issuer # EmptyString
    THEN <<[Issuer |-> issuer, Subject |-> identity]>>
    ELSE <<>>

\* the options with trusted material fetched for this call in place of the
\* cached one
NewCheckOptsFreshRoot(kc, referrers, identity, issuer, root) ==
    [RegistryClientOpts |-> kc,
     IgnoreTlog |-> FALSE,
     IgnoreSCT |-> TRUE,
     ExperimentalOCI11 |-> referrers,
     NewBundleFormat |-> TRUE,
     Identities |-> IdentitiesFor(identity, issuer),
     TrustedMaterial |-> <<"sigstore-trusted-root, fetched again">>]

\* lines 108-131: the options of the first verification attempt
NewCheckOpts(kc, referrers, identity, issuer, root) ==
    [RegistryClientOpts |-> kc,
     IgnoreTlog |-> FALSE,
     IgnoreSCT |-> TRUE,
     ExperimentalOCI11 |-> referrers,
     NewBundleFormat |-> TRUE,
     Identities |-> IdentitiesFor(identity, issuer),
     TrustedMaterial |-> root]

\* the fallback options with the referrers lookup disabled and the bundle
\* format left as it was
LegacyOptsKeepBundleFormat(opts) ==
    [opts EXCEPT !.ExperimentalOCI11 = FALSE]

\* lines 137-138: the options of the fallback attempt
LegacyOpts(opts) ==
    [opts EXCEPT !.ExperimentalOCI11 = FALSE, !.NewBundleFormat = FALSE]

\* the zero value checkOpts has between keys
NoCheckOpts == NewCheckOpts(<<>>, FALSE, EmptyString, EmptyString, EmptyString)

(***************************************************************************)
(* Attestations and their payloads.                                        *)
(***************************************************************************)
Stmt(type, predicate) ==
    Text(JObj(("_type" :> JStr(<<"https://in-toto.io/Statement/v0.1">>))
              @@ ("predicateType" :> JStr(type))
              @@ ("predicate" :> predicate)))

\* the DSSE envelope around statement bytes b
Envelope(b) ==
    Text(JObj([payload |-> EncodeToString(b),
               payloadType |-> JStr(<<"application/vnd.in-toto+json">>),
               signatures |-> JArr(<<>>)]))

SPDXCurl ==
    JObj([SPDXID |-> JStr(<<"SPDXRef-DOCUMENT">>),
          packages |-> JArr(<<JObj([name |-> JStr(<<"curl">>),
                                    versionInfo |-> JStr(<<"7.68.0">>),
                                    licenseDeclared |-> JStr(<<"Apache-2.0">>)])>>)])

CycloneDXExpress ==
    JObj([bomFormat |-> JStr(<<"CycloneDX">>),
          version |-> JNum,
          components |-> JArr(<<JObj([type |-> JStr(<<"library">>),
                                      name |-> JStr(<<"express">>),
                                      version |-> JStr(<<"4.18.2">>),
                                      purl |-> JStr(<<"pkg:npm/express@4.18.2">>),
                                      licenses |-> JArr(<<JObj([license |->
                                          JObj([id |-> JStr(<<"MIT">>)])])>>)])>>)])

\* a document whose "packages" is a string: no SPDXDocument can be read from it
SPDXMistyped ==
    JObj([SPDXID |-> JStr(<<"SPDXRef-DOCUMENT">>), packages |-> JStr(<<"curl">>)])

\* the attestations the Trust Verifier may return: oci.Signature values, known
\* to the pipeline only through Payload()
AttSPDX == "att-spdx"
AttCycloneDX == "att-cyclonedx"
AttUnknownType == "att-unknown-type"
AttBadPredicate == "att-bad-predicate"
AttUnreadable == "att-unreadable"

\* what Payload() returns for each of them: (bytes, err)
Payloads ==
    (AttSPDX :> [err |-> FALSE,
                 bytes |-> Stmt(<<"https://spdx.dev/Document/v2.3">>, SPDXCurl)])
    @@ (AttCycloneDX :> [err |-> FALSE,
                         bytes |-> Envelope(Stmt(<<"https://cyclonedx.org/bom">>,
                                                 CycloneDXExpress))])
    @@ (AttUnknownType :> [err |-> FALSE,
                           bytes |-> Stmt(<<"https://slsa.dev/provenance/v0.2">>,
                                          SPDXCurl)])
    @@ (AttBadPredicate :> [err |-> FALSE,
                            bytes |-> Stmt(<<"https://spdx.dev/Document">>,
                                           SPDXMistyped)])
    @@ (AttUnreadable :> [err |-> TRUE, bytes |-> Garbage])

\* att.Payload()
Payload(att) == Payloads[att]

(***************************************************************************)
(* verifier.go: the Trust Verifier and the walk over its attestations.     *)
(***************************************************************************)
\* an answer of cosign.VerifyImageAttestations: an error, or attestations
Answer(err, atts) == [err |-> err, atts |-> atts]

ErrNoMatchingAttestations == <<"no matching attestations">>

RECURSIVE WalkStopAtError(_, _)
\* Walk with an extraction error ending the loop instead of continuing it
WalkStopAtError(atts, i) ==
    IF i > Len(atts)
    THEN [found |-> FALSE, sbom |-> NilSBOM, read |-> <<>>, seen |-> <<>>]
    ELSE LET rest == WalkStopAtError(atts, i + 1) IN
         IF Payload(atts[i]).err
         THEN [rest EXCEPT !.read = <<i>> \o @]
         ELSE LET r == extractSBOMFromAttestation(Payload(atts[i]).bytes) IN
              IF r.err # NoError
              THEN [found |-> FALSE, sbom |-> NilSBOM, read |-> <<i>>, seen |-> <<i>>]
              ELSE IF r.nonNil
                   THEN [found |-> TRUE, sbom |-> r.sbom,
                         read |-> <<i>>, seen |-> <<i>>]
                   ELSE [rest EXCEPT !.read = <<i>> \o @, !.seen = <<i>> \o @]

RECURSIVE WalkStopAtUnreadable(_, _)
\* Walk with a Payload() error ending the loop instead of continuing it
WalkStopAtUnreadable(atts, i) ==
    IF i > Len(atts)
    THEN [found |-> FALSE, sbom |-> NilSBOM, read |-> <<>>, seen |-> <<>>]
    ELSE LET rest == WalkStopAtUnreadable(atts, i + 1) IN
         IF Payload(atts[i]).err
         THEN [found |-> FALSE, sbom |-> NilSBOM, read |-> <<i>>, seen |-> <<>>]
         ELSE LET r == extractSBOMFromAttestation(Payload(atts[i]).bytes) IN
              IF r.err # NoError
              THEN [rest EXCEPT !.read = <<i>> \o @, !.seen = <<i>> \o @]
              ELSE IF r.nonNil
                   THEN [found |-> TRUE, sbom |-> r.sbom,
                         read |-> <<i>>, seen |-> <<i>>]
                   ELSE [rest EXCEPT !.read = <<i>> \o @, !.seen = <<i>> \o @]

RECURSIVE WalkLastWins(_, _)
\* Walk with the loop running to the end, a later SBOM replacing an earlier one
WalkLastWins(atts, i) ==
    IF i > Len(atts)
    THEN [found |-> FALSE, sbom |-> NilSBOM, read |-> <<>>, seen |-> <<>>]
    ELSE LET rest == WalkLastWins(atts, i + 1) IN
         IF Payload(atts[i]).err
         THEN [rest EXCEPT !.read = <<i>> \o @]
         ELSE LET r == extractSBOMFromAttestation(Payload(atts[i]).bytes) IN
              IF r.err = NoError /\ r.nonNil /\ ~rest.found
              THEN [found |-> TRUE, sbom |-> r.sbom,
                    read |-> <<i>> \o rest.read, seen |-> <<i>> \o rest.seen]
              ELSE [rest EXCEPT !.read = <<i>> \o @, !.seen = <<i>> \o @]

RECURSIVE Walk(_, _)
\* lines 151-165, from attestation i on: whether an SBOM was returned, the SBOM,
\* the attestations whose Payload() was called and those that were extracted
Walk(atts, i) ==
    IF i > Len(atts)
    THEN [found |-> FALSE, sbom |-> NilSBOM, read |-> <<>>, seen |-> <<>>]
    ELSE LET rest == Walk(atts, i + 1) IN
         IF Payload(atts[i]).err
         THEN [rest EXCEPT !.read = <<i>> \o @]
         ELSE LET r == extractSBOMFromAttestation(Payload(atts[i]).bytes) IN
              IF r.err # NoError
              THEN [rest EXCEPT !.read = <<i>> \o @, !.seen = <<i>> \o @]
              ELSE IF r.nonNil
                   THEN [found |-> TRUE, sbom |-> r.sbom,
                         read |-> <<i>>, seen |-> <<i>>]
                   ELSE [rest EXCEPT !.read = <<i>> \o @, !.seen = <<i>> \o @]

\* Outcome without the check for an empty attestation set
OutcomeNoEmptyCheck(err, atts) ==
    IF err # NoError
    THEN [sbom |-> NilSBOM, err |-> <<"failed to fetch/verify attestations: ">> \o err]
    ELSE LET w == Walk(atts, 1) IN
         IF w.found THEN [sbom |-> w.sbom, err |-> NoError]
         ELSE [sbom |-> NilSBOM, err |-> <<"no SBOM found in attestations">>]

\* lines 142-167: what VerifyAndExtractSBOMWithParams returns once the
\* verification attempts are over: (sbom, err)
Outcome(err, atts) ==
    IF err # NoError
    THEN [sbom |-> NilSBOM, err |-> <<"failed to fetch/verify attestations: ">> \o err]
    ELSE IF Len(atts) = 0
    THEN [sbom |-> NilSBOM, err |-> <<"no attestations found">>]
    ELSE LET w == Walk(atts, 1) IN
         IF w.found THEN [sbom |-> w.sbom, err |-> NoError]
         ELSE [sbom |-> NilSBOM, err |-> <<"no SBOM found in attestations">>]

\* the attestations extracted on the way to Outcome(err, atts)
Extracted(err, atts) == IF err # NoError \/ Len(atts) = 0 THEN <<>>
                        ELSE Walk(atts, 1).seen

(***************************************************************************)
(* server.go: processImageRef.                                             *)
(***************************************************************************)
Item(key, value, error) == [Key |-> key, Value |-> value, Error |-> error]
NoItem == Item(EmptyString, EmptyString, EmptyString)

\* IdentityParam with the identity read once, from the first key of the batch
IdentityParamOfFirst(key) ==
    LET parts == Split(IF keys # <<>> THEN keys[1] ELSE key) IN
    IF Len(parts) >= 4 THEN parts[3] ELSE EmptyString

\* lines 119-126: the identity handed to the verifier as a parameter
IdentityParam(key) ==
    LET parts == Split(key) IN
    IF Len(parts) >= 4 THEN parts[3] ELSE EmptyString

\* lines 119-126: the issuer handed to the verifier as a parameter
IssuerParam(key) ==
    LET parts == Split(key) IN
    IF Len(parts) >= 4 THEN parts[4] ELSE EmptyString

\* encoding/json of one UnifiedPackage: purl is omitted when empty
MarshalPackage(pkg) ==
    IF pkg.PURL = EmptyString
    THEN JObj([name |-> JStr(pkg.Name), versionInfo |-> JStr(pkg.Version),
               licenseConcluded |-> JStr(pkg.License)])
    ELSE JObj([name |-> JStr(pkg.Name), versionInfo |-> JStr(pkg.Version),
               licenseConcluded |-> JStr(pkg.License), purl |-> JStr(pkg.PURL)])

\* json.Marshal(sbomData): the JSON text, which never fails for a UnifiedSBOM
Marshal(sbom) ==
    [err |-> NoError,
     json |-> Text(JObj([format |-> JStr(sbom.Format),
                         packages |-> JArr([i \in 1..Len(sbom.Packages) |->
                                              MarshalPackage(sbom.Packages[i])])]))]

\* ItemOf with the value marshalled before the error is looked at
ItemOfMarshalFirst(key, sbomData, err) ==
    LET m == Marshal(sbomData) IN
    IF err # NoError
    THEN Item(key, <<m.json>>,
              <<"Failed to verify attestation or extract SBOM: ">> \o err)
    ELSE Item(key, <<m.json>>, EmptyString)

\* lines 130-150: the Item made of what VerifyAndExtractSBOMWithParams returned
ItemOf(key, sbomData, err) ==
    IF err # NoError
    THEN Item(key, EmptyString,
              <<"Failed to verify attestation or extract SBOM: ">> \o err)
    ELSE LET m == Marshal(sbomData) IN
         IF m.err # NoError
         THEN Item(key, EmptyString, <<"Failed to marshal SBOM: ">> \o m.err)
         ELSE Item(key, <<m.json>>, EmptyString)

(***************************************************************************)
(* The environment: requests, attestations, verifier answers.              *)
(***************************************************************************)
Attestations ==
    {AttSPDX, AttCycloneDX, AttUnknownType, AttBadPredicate, AttUnreadable}

AttestationSets == UNION {[1..n -> Attestations] : n \in 0..MaxAtts}

\* the errors of a verification that ran to its end: to the pipeline an error
\* is opaque, so one stands for not found, unsupported and rejected alike
VerifyErrors == {ErrNoMatchingAttestations}

\* what cosign.VerifyImageAttestations may answer under context c: once the
\* context is done every registry call fails with the context's error
VerifierAnswers(c) ==
    IF c.err # NoError THEN {Answer(c.err, <<>>)}
    ELSE {Answer(e, <<>>) : e \in VerifyErrors}
         \cup {Answer(NoError, a) : a \in AttestationSets}

KeyFull == <<"img-a", PIPE, "[]", PIPE, "u@example.com", PIPE, "https://issuer">>
KeyBare == <<"img-b">>
KeyBadRef == <<"IMG B">>

Keys == {KeyFull, KeyBare, KeyBadRef}

Batches == UNION {[1..n -> Keys] : n \in 0..MaxKeys}

SigstoreRoot == <<"sigstore-trusted-root">>

\* main.go line 15: the timeout when neither the flag nor TIMEOUT is set
DefaultTimeout == <<"30s">>

(***************************************************************************)
(* Contexts.                                                               *)
(***************************************************************************)
DeadlineExceeded == <<"context deadline exceeded">>
Canceled == <<"context canceled">>

\* a context that was never created
NoContext == [timeout |-> EmptyString, err |-> NoError]

\* WithTimeout with one context made for the request and handed to every key
WithTimeoutShared(d) ==
    IF ctx = NoContext THEN [timeout |-> d, err |-> NoError]
    ELSE [ctx EXCEPT !.timeout = d]

\* context.WithTimeout(context.Background(), d)
WithTimeout(d) == [timeout |-> d, err |-> NoError]

\* the deferred cancel()
Cancel(c) == IF c.err = NoError THEN [c EXCEPT !.err = Canceled] ELSE c

(***************************************************************************)
(* The process.                                                            *)
(***************************************************************************)
Init ==
    /\ pc = "boot"
    /\ referrersEnv \in {EmptyString, <<"true">>}
    /\ useReferrers = FALSE
    /\ vKeychain = <<>>
    /\ trustedRoot = EmptyString
    /\ rootFetches = 0
    /\ timeout = EmptyString
    /\ keys = <<>>
    /\ items = <<>>
    /\ idx = 0
    /\ status = 0
    /\ ctx = NoContext
    /\ certIdentity = EmptyString
    /\ certOidcIssuer = EmptyString
    /\ checkOpts = NoCheckOpts
    /\ attestations = <<>>
    /\ fetchErr = NoError
    /\ item = NoItem
    /\ calls = <<>>
    /\ extracted = <<>>
    /\ k8sCalls = <<>>
    /\ payload = Garbage
    /\ result = [nonNil |-> FALSE, sbom |-> NilSBOM, err |-> NoError]

request == <<keys, items, idx, status>>
params == <<certIdentity, certOidcIssuer>>
perKey == <<ctx, params, checkOpts, attestations, fetchErr, item, calls,
            extracted, k8sCalls>>
verifier == <<referrersEnv, useReferrers, vKeychain, trustedRoot, rootFetches,
             timeout>>
standalone == <<payload, result>>

\* main.go 14-28 and NewAttestationVerifier: fetched tells whether
\* root.FetchTrustedRoot succeeds
NewAttestationVerifier ==
    /\ pc = "boot"
    /\ \E fetched \in BOOLEAN :
          /\ rootFetches' = rootFetches + 1
          /\ IF fetched
             THEN /\ useReferrers' = (referrersEnv = <<"true">>)
                  /\ vKeychain' = DefaultKeychain
                  /\ trustedRoot' = SigstoreRoot
                  /\ timeout' = DefaultTimeout
                  /\ pc' = "idle"
             ELSE /\ pc' = "exited"
                  /\ UNCHANGED <<useReferrers, vKeychain, trustedRoot, timeout>>
    /\ UNCHANGED <<referrersEnv, request, perKey, standalone>>

\* the method is looked at only once every key has been processed
MethodNotAllowedAfterLoop ==
    /\ pc = "loop"
    /\ idx > Len(keys)
    /\ \E method \in {"GET", "PUT"} : status' = 405
    /\ pc' = "done"
    /\ UNCHANGED <<verifier, keys, items, idx, perKey, standalone>>

\* handleVerify, lines 54-57
MethodNotAllowed ==
    /\ pc = "idle"
    /\ \E method \in {"GET", "PUT"} : status' = 405
    /\ pc' = "done"
    /\ UNCHANGED <<verifier, keys, items, idx, perKey, standalone>>

\* handleVerify, lines 60-74: the body cannot be read or is not a ProviderRequest
BadRequest ==
    /\ pc = "idle"
    /\ status' = 400
    /\ pc' = "done"
    /\ UNCHANGED <<verifier, keys, items, idx, perKey, standalone>>

\* handleVerify, lines 69-79: the body parses to a request with keys batch
AcceptRequest ==
    /\ pc = "idle"
    /\ \E batch \in Batches : keys' = batch
    /\ items' = <<>>
    /\ idx' = 1
    /\ pc' = "loop"
    /\ UNCHANGED <<verifier, status, perKey, standalone>>

\* VerifyAndExtractSBOMWithParams(ctx, key, identity, issuer), lines 73-131, up
\* to the first verification attempt; k8s is what the Kubernetes API answers
VerifyAndExtractSBOMWithParams(key, identity, issuer) ==
    \E k8s \in K8sAnswers :
       LET secretNames == SecretNamesOf(key)
           kc == KeychainFor(secretNames, vKeychain, k8s)
           parsed == ParseReference(SplitN(key, 4)[1])
       IN /\ k8sCalls' = createKeychainWithSecrets(secretNames, vKeychain, k8s).api
          /\ calls' = <<>>
          /\ extracted' = <<>>
          /\ attestations' = <<>>
          /\ fetchErr' = NoError
          /\ IF parsed.err # NoError
             THEN /\ item' = ItemOf(key, NilSBOM,
                                    <<"failed to parse image reference: ">>
                                       \o parsed.err)
                  /\ checkOpts' = NoCheckOpts
                  /\ pc' = "keydone"
             ELSE /\ item' = NoItem
                  /\ checkOpts' = NewCheckOpts(kc, useReferrers,
                                               IdentityOf(key, identity),
                                               IssuerOf(key, issuer),
                                               trustedRoot)
                  /\ pc' = "modern"

\* processImageRef up to the first verification attempt: lines 116-129, with
\* the call of VerifyAndExtractSBOMWithParams
StartKey ==
    /\ pc = "loop"
    /\ idx <= Len(keys)
    /\ ctx' = WithTimeout(timeout)
    /\ certIdentity' = IdentityParam(keys[idx])
    /\ certOidcIssuer' = IssuerParam(keys[idx])
    /\ VerifyAndExtractSBOMWithParams(keys[idx], certIdentity', certOidcIssuer')
    /\ UNCHANGED <<verifier, request, standalone>>

\* one call of cosign.VerifyImageAttestations(ctx, ref, checkOpts), as recorded
Call(c, ref, opts, ans) == [ctx |-> c, ref |-> ref, opts |-> opts, ans |-> ans]

\* ModernAttempt with the fallback taken on an empty attestation set as well
\* as on an error
ModernAttemptFallbackOnEmpty ==
    /\ pc = "modern"
    /\ \E ans \in VerifierAnswers(ctx) :
          /\ calls' = Append(calls, Call(ctx, SplitN(keys[idx], 4)[1], checkOpts, ans))
          /\ fetchErr' = ans.err
          /\ attestations' = ans.atts
          /\ IF ans.err # NoError \/ ans.atts = <<>>
             THEN /\ checkOpts' = LegacyOpts(checkOpts)
                  /\ pc' = "legacy"
                  /\ UNCHANGED <<item, extracted>>
             ELSE /\ item' = LET o == Outcome(ans.err, ans.atts)
                             IN ItemOf(keys[idx], o.sbom, o.err)
                  /\ extracted' = Extracted(ans.err, ans.atts)
                  /\ pc' = "keydone"
                  /\ UNCHANGED checkOpts
    /\ UNCHANGED <<verifier, request, ctx, params, k8sCalls, standalone>>

\* lines 134-140: the first attempt; on success lines 142-167 and the rest of
\* processImageRef follow
ModernAttempt ==
    /\ pc = "modern"
    /\ \E ans \in VerifierAnswers(ctx) :
          /\ calls' = Append(calls, Call(ctx, SplitN(keys[idx], 4)[1], checkOpts, ans))
          /\ fetchErr' = ans.err
          /\ attestations' = ans.atts
          /\ IF ans.err # NoError
             THEN /\ checkOpts' = LegacyOpts(checkOpts)
                  /\ pc' = "legacy"
                  /\ UNCHANGED <<item, extracted>>
             ELSE /\ item' = LET o == Outcome(ans.err, ans.atts)
                             IN ItemOf(keys[idx], o.sbom, o.err)
                  /\ extracted' = Extracted(ans.err, ans.atts)
                  /\ pc' = "keydone"
                  /\ UNCHANGED checkOpts
    /\ UNCHANGED <<verifier, request, ctx, params, k8sCalls, standalone>>

\* LegacyAttempt with the results of the second call assigned to variables of
\* the if block (:= for =), so that fetchErr and attestations keep the values
\* of the first attempt
LegacyAttemptShadowed ==
    /\ pc = "legacy"
    /\ \E ans \in VerifierAnswers(ctx) :
          /\ calls' = Append(calls, Call(ctx, SplitN(keys[idx], 4)[1], checkOpts, ans))
          /\ item' = LET o == Outcome(fetchErr, attestations)
                     IN ItemOf(keys[idx], o.sbom, o.err)
          /\ extracted' = Extracted(fetchErr, attestations)
          /\ pc' = "keydone"
    /\ UNCHANGED <<verifier, request, ctx, params, checkOpts, k8sCalls, standalone,
                   fetchErr, attestations>>

\* line 139: the fallback attempt, then lines 142-167 and the rest of
\* processImageRef
LegacyAttempt ==
    /\ pc = "legacy"
    /\ \E ans \in VerifierAnswers(ctx) :
          /\ calls' = Append(calls, Call(ctx, SplitN(keys[idx], 4)[1], checkOpts, ans))
          /\ fetchErr' = ans.err
          /\ attestations' = ans.atts
          /\ item' = LET o == Outcome(ans.err, ans.atts)
                     IN ItemOf(keys[idx], o.sbom, o.err)
          /\ extracted' = Extracted(ans.err, ans.atts)
          /\ pc' = "keydone"
    /\ UNCHANGED <<verifier, request, ctx, params, checkOpts, k8sCalls,
                   standalone>>

\* the deadline of ctx passes while a verification call is in flight
Expire ==
    /\ pc \in {"modern", "legacy"}
    /\ ctx.err = NoError
    /\ ctx' = [ctx EXCEPT !.err = DeadlineExceeded]
    /\ UNCHANGED <<pc, verifier, request, params, checkOpts, attestations, fetchErr, item,
                   calls, extracted, k8sCalls, standalone>>

\* AppendItem with the items that carry an error left out of the response
AppendItemSkipErrors ==
    /\ pc = "keydone"
    /\ items' = IF item.Error # EmptyString THEN items ELSE Append(items, item)
    /\ idx' = idx + 1
    /\ pc' = "loop"
    /\ ctx' = Cancel(ctx)
    /\ certIdentity' = EmptyString
    /\ certOidcIssuer' = EmptyString
    /\ checkOpts' = NoCheckOpts
    /\ attestations' = <<>>
    /\ fetchErr' = NoError
    /\ item' = NoItem
    /\ calls' = <<>>
    /\ extracted' = <<>>
    /\ k8sCalls' = <<>>
    /\ UNCHANGED <<verifier, keys, status, standalone>>

\* processImageRef returns (the deferred cancel runs) and handleVerify, lines
\* 81-82, appends the item; the locals of the call are gone
AppendItem ==
    /\ pc = "keydone"
    /\ items' = Append(items, item)
    /\ idx' = idx + 1
    /\ pc' = "loop"
    /\ ctx' = Cancel(ctx)
    /\ certIdentity' = EmptyString
    /\ certOidcIssuer' = EmptyString
    /\ checkOpts' = NoCheckOpts
    /\ attestations' = <<>>
    /\ fetchErr' = NoError
    /\ item' = NoItem
    /\ calls' = <<>>
    /\ extracted' = <<>>
    /\ k8sCalls' = <<>>
    /\ UNCHANGED <<verifier, keys, status, standalone>>

\* handleVerify, lines 85-110: the response is written
SendResponse ==
    /\ pc = "loop"
    /\ idx > Len(keys)
    /\ status' = 200
    /\ pc' = "done"
    /\ UNCHANGED <<verifier, keys, items, idx, perKey, standalone>>

Next ==
    \/ NewAttestationVerifier
    \/ MethodNotAllowed
    \/ BadRequest
    \/ AcceptRequest
    \/ StartKey
    \/ ModernAttempt
    \/ LegacyAttempt
    \/ Expire
    \/ AppendItem
    \/ SendResponse

Spec == Init /\ [][Next]_vars

(***************************************************************************)
(* One key on its own: a request with a single key, taken from a wider set *)
(* of keys than the batches above, against every answer of the Kubernetes  *)
(* API.                                                                    *)
(***************************************************************************)
KeyEmptySecrets == <<"img-a", PIPE>>
KeyNoSecrets == <<"img-a", PIPE, "[]">>
KeyOneSecret == <<"img-a", PIPE, "[\"s1\"]">>
KeyTwoSecrets ==
    <<"img-b", PIPE, "[\"s1\",\"s2\"]", PIPE, "u@example.com", PIPE, "https://issuer">>
KeyMixedList == <<"img-a", PIPE, "[\"s1\",7]">>
KeyNullList == <<"img-a", PIPE, "null">>
KeyObjectList == <<"img-a", PIPE, "{}">>
KeyStringList == <<"img-a", PIPE, "\"s1\"">>
KeyNotJSON == <<"img-a", PIPE, "[s1">>
KeyThreeSegments == <<"img-a", PIPE, "[]", PIPE, "u@example.com">>
KeyFiveSegments ==
    <<"img-a", PIPE, "[]", PIPE, "u@example.com", PIPE, "https://issuer", PIPE, "x">>
KeyEmptyIssuerSegment ==
    <<"img-a", PIPE, "[]", PIPE, "u@example.com", PIPE, PIPE, "x">>
KeyBadRefSecrets == <<"IMG B", PIPE, "[\"s1\"]">>

KeyInputs ==
    Keys \cup {KeyEmptySecrets, KeyNoSecrets, KeyOneSecret, KeyTwoSecrets,
               KeyMixedList, KeyNullList, KeyObjectList, KeyStringList,
               KeyNotJSON, KeyThreeSegments, KeyFiveSegments,
               KeyEmptyIssuerSegment, KeyBadRefSecrets}

\* the process has started and handleVerify has read a request with one key
InitKey ==
    /\ pc = "loop"
    /\ referrersEnv \in {EmptyString, <<"true">>, <<"false">>}
    /\ useReferrers = (referrersEnv = <<"true">>)
    /\ vKeychain = DefaultKeychain
    /\ trustedRoot = SigstoreRoot
    /\ rootFetches = 1
    /\ timeout = DefaultTimeout
    /\ \E key \in KeyInputs : keys = <<key>>
    /\ items = <<>>
    /\ idx = 1
    /\ status = 0
    /\ ctx = NoContext
    /\ certIdentity = EmptyString
    /\ certOidcIssuer = EmptyString
    /\ checkOpts = NoCheckOpts
    /\ attestations = <<>>
    /\ fetchErr = NoError
    /\ item = NoItem
    /\ calls = <<>>
    /\ extracted = <<>>
    /\ k8sCalls = <<>>
    /\ payload = Garbage
    /\ result = [nonNil |-> FALSE, sbom |-> NilSBOM, err |-> NoError]

NextKey ==
    \/ StartKey
    \/ ModernAttempt
    \/ LegacyAttempt
    \/ Expire
    \/ AppendItem
    \/ SendResponse

SpecKey == InitKey /\ [][NextKey]_vars

(***************************************************************************)
(* VerifyAndExtractSBOMWithParams called with parameters of the caller's   *)
(* choosing: a key of one to five segments, and an identity and an issuer  *)
(* that are empty, equal to the key's segment or different from it.        *)
(***************************************************************************)
KeyEmptyIdentitySegment == <<"img-a", PIPE, "[]", PIPE, PIPE, "https://issuer">>

ParamKeys ==
    {KeyBare, KeyNoSecrets, KeyThreeSegments, KeyFull, KeyFiveSegments,
     KeyEmptyIssuerSegment, KeyEmptyIdentitySegment, KeyBadRef}

IdentitySamples == {EmptyString, <<"u@example.com">>, <<"param@example.com">>}

IssuerSamples == {EmptyString, <<"https://issuer">>, <<"https://param-issuer">>}

\* the process has started and a caller holds a context, a key and the two
\* parameters
InitParams ==
    /\ pc = "call"
    /\ referrersEnv = <<"true">>
    /\ useReferrers = TRUE
    /\ vKeychain = DefaultKeychain
    /\ trustedRoot = SigstoreRoot
    /\ rootFetches = 1
    /\ timeout = DefaultTimeout
    /\ \E key \in ParamKeys : keys = <<key>>
    /\ items = <<>>
    /\ idx = 1
    /\ status = 0
    /\ ctx = WithTimeout(DefaultTimeout)
    /\ certIdentity \in IdentitySamples
    /\ certOidcIssuer \in IssuerSamples
    /\ checkOpts = NoCheckOpts
    /\ attestations = <<>>
    /\ fetchErr = NoError
    /\ item = NoItem
    /\ calls = <<>>
    /\ extracted = <<>>
    /\ k8sCalls = <<>>
    /\ payload = Garbage
    /\ result = [nonNil |-> FALSE, sbom |-> NilSBOM, err |-> NoError]

\* the call, up to the first verification attempt
CallWithParams ==
    /\ pc = "call"
    /\ VerifyAndExtractSBOMWithParams(keys[idx], certIdentity, certOidcIssuer)
    /\ UNCHANGED <<verifier, request, ctx, params, standalone>>

NextParams ==
    \/ CallWithParams
    \/ ModernAttempt
    \/ LegacyAttempt
    \/ Expire

SpecParams == InitParams /\ [][NextParams]_vars

(***************************************************************************)
(* The two normalizers on their own: each applied to one predicate, as the *)
(* tests of verifier_test.go call them.                                    *)
(***************************************************************************)
\* a field that the JSON object does not have
Absent == [k |-> "absent"]

\* the object with field n of value v, or without it
Field(n, v) == IF v = Absent THEN <<>> ELSE n :> v

ConcludedSamples == {Absent, JNull, JStr(EmptyString), JStr(<<"Apache-2.0">>)}
DeclaredSamples ==
    {Absent, JNull, JStr(EmptyString), JStr(<<"MIT">>), JStr(<<"BSD-3-Clause">>)}

SPDXPackageSamples ==
    {JObj(("name" :> JStr(<<"pkg">>)) @@ ("versionInfo" :> JStr(<<"1.0.0">>))
             @@ Field("licenseConcluded", c) @@ Field("licenseDeclared", d)) :
        c \in ConcludedSamples, d \in DeclaredSamples}

SPDXDocumentSamples ==
    {Text(JObj(("SPDXID" :> JStr(<<"SPDXRef-DOCUMENT">>)) @@ ("packages" :> JArr(pkgs)))) :
        pkgs \in UNION {[1..n -> SPDXPackageSamples] : n \in 1..MaxPackages}}

IDSamples == {Absent, JStr(EmptyString), JStr(<<"MIT">>)}
NameSamples == {Absent, JStr(EmptyString), JStr(<<"Custom License">>)}

\* entries of "licenses": with a license of every id and name, without one, null
LicenseEntrySamples ==
    {JObj("license" :> JObj(Field("id", i) @@ Field("name", n))) :
        i \in IDSamples, n \in NameSamples}
       \cup {JObj(<<>>), JNull}

CycloneDXComponentSamples ==
    {JObj(("name" :> JStr(<<"pkg">>)) @@ ("version" :> JStr(<<"1.0.0">>))
             @@ ("licenses" :> JArr(ls))) :
        ls \in UNION {[1..n -> LicenseEntrySamples] : n \in 0..MaxLicenses}}
       \cup {JObj(("name" :> JStr(<<"pkg">>)) @@ ("version" :> JStr(<<"1.0.0">>)))}

CycloneDXBOMSamples ==
    {Text(JObj(("bomFormat" :> JStr(<<"CycloneDX">>)) @@ ("components" :> JArr(<<c>>)))) :
        c \in CycloneDXComponentSamples}

\* name and version of the entries of the documents that vary in the number
\* and order of their entries: two versions of one package and another package
EntrySamples ==
    {[name |-> <<"curl">>, version |-> <<"7.0">>],
     [name |-> <<"curl">>, version |-> <<"8.0">>],
     [name |-> <<"express">>, version |-> <<"4.18.2">>]}

\* every sequence of up to MaxPackages entries, repetitions included
EntryLists == UNION {[1..n -> EntrySamples] : n \in 0..MaxPackages}

SPDXOrderSamples ==
    {Text(JObj(("SPDXID" :> JStr(<<"SPDXRef-DOCUMENT">>))
               @@ ("packages" :>
                      JArr([i \in 1..Len(es) |->
                               JObj(("name" :> JStr(es[i].name))
                                    @@ ("versionInfo" :> JStr(es[i].version))
                                    @@ ("licenseConcluded" :> JStr(<<"MIT">>)))])))) :
        es \in EntryLists}

CycloneDXOrderSamples ==
    {Text(JObj(("bomFormat" :> JStr(<<"CycloneDX">>))
               @@ ("components" :>
                      JArr([i \in 1..Len(es) |->
                               JObj(("name" :> JStr(es[i].name))
                                    @@ ("version" :> JStr(es[i].version)))])))) :
        es \in EntryLists}

InitNormalize ==
    /\ pc = "normalize"
    /\ payload \in SPDXDocumentSamples \cup CycloneDXBOMSamples
                      \cup SPDXOrderSamples \cup CycloneDXOrderSamples
    /\ result = [nonNil |-> FALSE, sbom |-> NilSBOM, err |-> NoError]
    /\ referrersEnv = EmptyString
    /\ useReferrers = FALSE
    /\ vKeychain = <<>>
    /\ trustedRoot = EmptyString
    /\ rootFetches = 0
    /\ timeout = EmptyString
    /\ keys = <<>>
    /\ items = <<>>
    /\ idx = 0
    /\ status = 0
    /\ ctx = NoContext
    /\ certIdentity = EmptyString
    /\ certOidcIssuer = EmptyString
    /\ checkOpts = NoCheckOpts
    /\ attestations = <<>>
    /\ fetchErr = NoError
    /\ item = NoItem
    /\ calls = <<>>
    /\ extracted = <<>>
    /\ k8sCalls = <<>>

\* unified, err := verifier.extractAndNormalizeSPDX(payload)
NormalizeSPDX ==
    /\ pc = "normalize"
    /\ result' = extractAndNormalizeSPDX(payload)
    /\ pc' = "spdx"
    /\ UNCHANGED <<payload, verifier, request, perKey>>

\* unified, err := verifier.extractAndNormalizeCycloneDX(payload)
NormalizeCycloneDX ==
    /\ pc = "normalize"
    /\ result' = extractAndNormalizeCycloneDX(payload)
    /\ pc' = "cyclonedx"
    /\ UNCHANGED <<payload, verifier, request, perKey>>

NextNormalize == NormalizeSPDX \/ NormalizeCycloneDX

SpecNormalize == InitNormalize /\ [][NextNormalize]_vars

(***************************************************************************)
(* extractSBOMFromAttestation on its own: the function applied to one      *)
(* payload, as the tests of verifier_test.go call it.                      *)
(***************************************************************************)
\* predicate types: the recognized ones and others, some close to them
PredicateTypeSamples ==
    SPDXPredicateTypes \cup CycloneDXPredicateTypes
       \cup { <<"SPDX">>, <<"https://spdx.dev/Document/v2.2">>,
               <<"https://spdx.dev/Document/">>, <<"CycloneDX">>,
               <<"https://cyclonedx.org/bom/v1.4">>,
               <<"https://example.com/unknown">>, EmptyString }

PredicateSamples == {SPDXCurl, CycloneDXExpress, SPDXMistyped, JNull}

\* a statement without a predicate
StmtNoPredicate(type) ==
    Text(JObj(("_type" :> JStr(<<"https://in-toto.io/Statement/v0.1">>))
              @@ ("predicateType" :> JStr(type))))

\* a statement whose predicateType is a number
StmtTypeMistyped ==
    Text(JObj(("_type" :> JStr(<<"https://in-toto.io/Statement/v0.1">>))
              @@ ("predicateType" :> JNum)
              @@ ("predicate" :> SPDXCurl)))

\* statements with one more field, named "payload": a text, and the base64
\* encoding of bytes that are no statement
StmtWithPayloadText ==
    Text(JObj(("_type" :> JStr(<<"https://in-toto.io/Statement/v0.1">>))
              @@ ("predicateType" :> JStr(<<"https://spdx.dev/Document">>))
              @@ ("predicate" :> SPDXCurl)
              @@ ("payload" :> JStr(<<"see predicate">>))))
StmtWithPayloadBase64 ==
    Text(JObj(("_type" :> JStr(<<"https://in-toto.io/Statement/v0.1">>))
              @@ ("predicateType" :> JStr(<<"https://spdx.dev/Document">>))
              @@ ("predicate" :> SPDXCurl)
              @@ ("payload" :> EncodeToString(Garbage))))

StatementSamples ==
    {Stmt(t, p) : t \in PredicateTypeSamples, p \in PredicateSamples}
       \cup {StmtNoPredicate(t) : t \in PredicateTypeSamples}
       \cup {StmtTypeMistyped, Garbage, Text(JArr(<<>>)), Text(JNull)}
       \cup {StmtWithPayloadText, StmtWithPayloadBase64}

\* envelopes whose payload is not base64, is empty, is not a string
EnvelopeBadBase64 == Text(JObj([payload |-> JStr(<<"%%%">>)]))
EnvelopeEmptyPayload == Text(JObj([payload |-> JStr(EmptyString)]))
EnvelopePayloadMistyped == Text(JObj([payload |-> JNum]))

ExtractInputs ==
    StatementSamples \cup {Envelope(b) : b \in StatementSamples}
       \cup {EnvelopeBadBase64, EnvelopeEmptyPayload, EnvelopePayloadMistyped}

InitExtract ==
    /\ pc = "extract"
    /\ payload \in ExtractInputs
    /\ result = [nonNil |-> FALSE, sbom |-> NilSBOM, err |-> NoError]
    /\ referrersEnv = EmptyString
    /\ useReferrers = FALSE
    /\ vKeychain = <<>>
    /\ trustedRoot = EmptyString
    /\ rootFetches = 0
    /\ timeout = EmptyString
    /\ keys = <<>>
    /\ items = <<>>
    /\ idx = 0
    /\ status = 0
    /\ ctx = NoContext
    /\ certIdentity = EmptyString
    /\ certOidcIssuer = EmptyString
    /\ checkOpts = NoCheckOpts
    /\ attestations = <<>>
    /\ fetchErr = NoError
    /\ item = NoItem
    /\ calls = <<>>
    /\ extracted = <<>>
    /\ k8sCalls = <<>>

\* sbom, err := verifier.extractSBOMFromAttestation(payload)
Extract ==
    /\ pc = "extract"
    /\ result' = extractSBOMFromAttestation(payload)
    /\ pc' = "extracted"
    /\ UNCHANGED <<payload, verifier, request, perKey>>

NextExtract == Extract

SpecExtract == InitExtract /\ [][NextExtract]_vars

(***************************************************************************)
(* Properties.                                                             *)
(***************************************************************************)
ExactlyOne(it) == (it.Value # EmptyString) # (it.Error # EmptyString)

\* C1: every item POST /verify produces for a key has exactly one of value
\* and error non-empty, whatever the verification, credential and extraction
\* outcomes were.
C1_ExactlyOneOfValueError ==
    /\ \A i \in 1..Len(items) : ExactlyOne(items[i])
    /\ pc = "keydone" => ExactlyOne(item)

\* a response that carries an item with a value and an item with an error
C1_Witness ==
    /\ pc = "done"
    /\ \E i, j \in 1..Len(items) :
          /\ items[i].Value # EmptyString
          /\ items[j].Error # EmptyString

\* C2: a request whose body parses is answered 200 with exactly one item per
\* key, in request order, each item's key being the raw key of the request,
\* whether or not items carry an error.
C2_OneItemPerKeyInOrder ==
    /\ pc \in {"loop", "modern", "legacy", "keydone"} =>
          /\ Len(items) = idx - 1
          /\ \A i \in 1..Len(items) : items[i].Key = keys[i]
    /\ pc = "keydone" => item.Key = keys[idx]
    /\ (pc = "done" /\ idx > 0) =>
          /\ status = 200
          /\ Len(items) = Len(keys)
          /\ \A i \in 1..Len(keys) : items[i].Key = keys[i]

\* the response to the two keys of the end-to-end example: the first item has a
\* value, the second an error
C2_Witness ==
    /\ pc = "done"
    /\ status = 200
    /\ keys = <<KeyFull, KeyBare>>
    /\ Len(items) = 2
    /\ items[1].Value # EmptyString
    /\ items[2].Error # EmptyString

\* the verification of the key being processed ended without error
Verified == pc = "keydone" /\ calls # <<>> /\ calls[Len(calls)].ans.err = NoError

\* the statement of attestation att, when there is one: the payload can be
\* read, any envelope unwraps and the bytes parse as a statement
HasStatement(att) ==
    /\ ~Payload(att).err
    /\ ~Unwrap(Payload(att).bytes).err
    /\ ~UnmarshalStatement(Unwrap(Payload(att).bytes).bytes).err

StatementOf(att) == UnmarshalStatement(Unwrap(Payload(att).bytes).bytes)

RecognizedPredicateTypes ==
    { <<"https://spdx.dev/Document">>, <<"https://spdx.dev/Document/v2.3">>,
      <<"spdx">>, <<"https://cyclonedx.org/bom">>,
      <<"https://cyclonedx.org/schema">>, <<"cyclonedx">> }

DeclaresRecognizedType(att) ==
    HasStatement(att) /\ StatementOf(att).PredicateType \in RecognizedPredicateTypes

\* the predicate of att is a document of the format its predicate type declares
PredicateParses(att) ==
    IF StatementOf(att).PredicateType \in
          { <<"https://spdx.dev/Document">>, <<"https://spdx.dev/Document/v2.3">>,
            <<"spdx">> }
    THEN ~SPDXDocumentErr(StatementOf(att).Predicate)
    ELSE ~CycloneDXBOMErr(StatementOf(att).Predicate)

\* the attestations that declare a recognized type, and those of them whose
\* predicate parses
Recognized == {a \in Attestations : DeclaresRecognizedType(a)}
RecognizedAndParsed == {a \in Recognized : PredicateParses(a)}

FailedPrefix == <<"Failed to verify attestation or extract SBOM: ">>

\* C4: when the modern and the legacy attempt both fail, the key's item has an
\* empty value and an error that carries the error of the legacy attempt.
C4_BothFailCarriesLegacyError ==
    (/\ pc = "keydone"
     /\ Len(calls) = 2
     /\ calls[1].ans.err # NoError
     /\ calls[2].ans.err # NoError)
       => /\ item.Value = EmptyString
          /\ item.Error = FailedPrefix \o <<"failed to fetch/verify attestations: ">>
                             \o calls[2].ans.err

\* both attempts failed, with different errors
C4_Witness ==
    /\ pc = "keydone"
    /\ Len(calls) = 2
    /\ calls[1].ans.err # NoError
    /\ calls[2].ans.err # NoError
    /\ calls[1].ans.err # calls[2].ans.err
    /\ item.Error # EmptyString

\* attestation att yields an SBOM: its payload can be read and
\* extractSBOMFromAttestation returns a non-nil SBOM and no error
Yielding ==
    {a \in Attestations :
        /\ ~Payload(a).err
        /\ extractSBOMFromAttestation(Payload(a).bytes).err = NoError
        /\ extractSBOMFromAttestation(Payload(a).bytes).nonNil}

Yields(att) == att \in Yielding

\* the JSON text of the SBOM of each attestation that yields one
ValueOf ==
    [a \in Yielding |->
        Marshal(extractSBOMFromAttestation(Payload(a).bytes).sbom).json]

\* the first attestation of atts that yields an SBOM, 0 when none does
FirstYielding(atts) ==
    IF \E i \in 1..Len(atts) : Yields(atts[i])
    THEN CHOOSE i \in 1..Len(atts) :
            Yields(atts[i]) /\ \A j \in 1..(i - 1) : ~Yields(atts[j])
    ELSE 0

\* C5: the verified set is walked in the order the verifier returned it and the
\* SBOM returned is that of the first attestation that yields one; no
\* attestation after it is extracted or influences the result.
C5_FirstYieldingWins ==
    (Verified /\ FirstYielding(attestations) # 0) =>
       LET f == FirstYielding(attestations) IN
       /\ item.Value = <<ValueOf[attestations[f]]>>
       /\ \A n \in 1..Len(extracted) : extracted[n] <= f
       /\ \A n \in 1..(Len(extracted) - 1) : extracted[n] < extracted[n + 1]
       /\ extracted[Len(extracted)] = f

\* two attestations that yield different SBOMs: the first one is returned and
\* the second one is not extracted
C5_Witness ==
    /\ Verified
    /\ Len(attestations) = 2
    /\ Yields(attestations[1])
    /\ Yields(attestations[2])
    /\ ValueOf[attestations[1]] # ValueOf[attestations[2]]
    /\ item.Value = <<ValueOf[attestations[1]]>>
    /\ extracted = <<1>>

\* C6: an attestation whose payload cannot be read or whose extraction returns
\* an error is skipped and the next one is tried, so a later attestation with
\* an SBOM makes the key succeed; the key fails, with "no SBOM found in
\* attestations", only when no attestation of a non-empty verified set yields
\* an SBOM.
C6_SkipAndContinue ==
    (Verified /\ attestations # <<>>) =>
       /\ (\E i \in 1..Len(attestations) : Yields(attestations[i]))
             <=> (item.Value # EmptyString /\ item.Error = EmptyString)
       /\ (\A i \in 1..Len(attestations) : ~Yields(attestations[i]))
             <=> (item.Error = FailedPrefix \o <<"no SBOM found in attestations">>)
       /\ \A i \in 1..Len(attestations) :
             (/\ ~Payload(attestations[i]).err
              /\ \A j \in 1..(i - 1) : ~Yields(attestations[j]))
                => \E n \in 1..Len(extracted) : extracted[n] = i

\* an unreadable first attestation is skipped and the second one gives the value
C6_Witness ==
    /\ Verified
    /\ Len(attestations) = 2
    /\ Payload(attestations[1]).err
    /\ Yields(attestations[2])
    /\ item.Value # EmptyString

\* C8: a verified attestation set with no entries, returned without error, is a
\* failure: the key gets the error "no attestations found" and no value.
C8_EmptySetIsFailure ==
    (Verified /\ attestations = <<>>) =>
       /\ item.Value = EmptyString
       /\ item.Error = FailedPrefix \o <<"no attestations found">>
       /\ extracted = <<>>

\* the legacy attempt returned an empty set without error
C8_Witness ==
    /\ Verified
    /\ attestations = <<>>
    /\ Len(calls) = 2
    /\ item.Error # EmptyString

\* the six predicate types the claim lists
SixRecognizedStrings ==
    { <<"https://spdx.dev/Document">>, <<"https://spdx.dev/Document/v2.3">>,
      <<"spdx">>, <<"https://cyclonedx.org/bom">>,
      <<"https://cyclonedx.org/schema">>, <<"cyclonedx">> }

\* the bytes the statement of payload is parsed from can be obtained and parse
StatementParses(b) ==
    ~Unwrap(b).err /\ ~UnmarshalStatement(Unwrap(b).bytes).err

\* the statement of payload parses and its predicateType is none of the six
ParsedUnrecognized(b) ==
    /\ StatementParses(b)
    /\ UnmarshalStatement(Unwrap(b).bytes).PredicateType \notin SixRecognizedStrings

\* C7: extractSBOMFromAttestation returns no SBOM and no error for every
\* statement that parses and whose predicateType is not exactly one of the six
\* recognized strings, and an error for a statement that does not parse; no
\* other input gets the (no SBOM, no error) outcome.
C7_UnsupportedTypeIsNotAnError ==
    pc = "extracted" =>
       /\ ParsedUnrecognized(payload) => (~result.nonNil /\ result.err = NoError)
       /\ ~StatementParses(payload) => result.err # NoError
       /\ (~result.nonNil /\ result.err = NoError) => ParsedUnrecognized(payload)

\* a statement in an envelope whose type differs from a recognized one by case
C7_Witness ==
    /\ pc = "extracted"
    /\ payload = Envelope(Stmt(<<"SPDX">>, SPDXCurl))
    /\ ~result.nonNil
    /\ result.err = NoError

\* the deadline of a key's context has passed when its last verification call
\* was made
ExpiredKey ==
    /\ pc = "keydone"
    /\ calls # <<>>
    /\ calls[Len(calls)].ctx.err = DeadlineExceeded

C9_State ==
    /\ pc \in {"modern", "legacy", "keydone"} =>
          (ctx.timeout = timeout /\ ctx.err \in {NoError, DeadlineExceeded})
    /\ \A n \in 1..Len(calls) : calls[n].ctx.timeout = timeout
    /\ ExpiredKey =>
          /\ item.Key = keys[idx]
          /\ item.Value = EmptyString
          /\ item.Error = FailedPrefix \o <<"failed to fetch/verify attestations: ">>
                             \o DeadlineExceeded
    /\ (pc = "done" /\ status = 200) => Len(items) = Len(keys)

C9_Step ==
    /\ (pc = "loop" /\ pc' \in {"modern", "keydone"}) =>
          ctx' = [timeout |-> timeout, err |-> NoError]
    /\ (ctx.err = NoError /\ ctx'.err = DeadlineExceeded) =>
          (items' = items /\ idx' = idx /\ keys' = keys /\ pc' = pc)
    /\ pc \in {"loop", "modern", "legacy", "keydone"} =>
          /\ Len(items') >= Len(items)
          /\ \A i \in 1..Len(items) : items'[i] = items[i]

\* C9: each key is verified under its own deadline, created when the key's
\* processing starts and equal to the configured timeout; the expiry of a
\* key's deadline gives an error item for that key and changes no other item,
\* the next key starts with a fresh deadline and the response has all items.
C9_OwnDeadlinePerKey == []C9_State /\ [][C9_Step]_vars

\* the first key's deadline expired and the second key still got its value
C9_Witness ==
    /\ pc = "done"
    /\ status = 200
    /\ Len(items) = 2
    /\ items[1].Error = FailedPrefix \o <<"failed to fetch/verify attestations: ">>
                           \o DeadlineExceeded
    /\ items[2].Value # EmptyString

\* segment n of the segments parts of a key, "" when there are fewer
Segment(parts, n) == IF Len(parts) >= n THEN parts[n] ELSE EmptyString

\* the item of key when the verifier gave answers, none when the image
\* reference did not parse
ItemFor(key, answers) ==
    IF answers = <<>>
    THEN Item(key, EmptyString,
              FailedPrefix \o <<"failed to parse image reference: ",
                                "could not parse reference">>)
    ELSE LET last == answers[Len(answers)] IN
         IF last.err # NoError
         THEN Item(key, EmptyString,
                   FailedPrefix \o <<"failed to fetch/verify attestations: ">>
                      \o last.err)
         ELSE IF last.atts = <<>>
         THEN Item(key, EmptyString, FailedPrefix \o <<"no attestations found">>)
         ELSE LET f == FirstYielding(last.atts) IN
              IF f = 0
              THEN Item(key, EmptyString,
                        FailedPrefix \o <<"no SBOM found in attestations">>)
              ELSE Item(key, <<ValueOf[last.atts[f]]>>, EmptyString)

\* the identities the verifier is asked to accept for a key of segments parts
IdentitiesOfKey(parts) ==
    IF Segment(parts, 3) # EmptyString \/ Segment(parts, 4) # EmptyString
    THEN <<[Issuer |-> Segment(parts, 4), Subject |-> Segment(parts, 3)]>>
    ELSE <<>>

\* C10: the item of a key is a function of the key, the configuration of the
\* process and the answers the collaborators gave for that key: the verifier
\* is asked about the key's own reference, identity and issuer under the
\* process's keychain, trusted root and timeout, and the item is computed from
\* its answers, whatever the other keys of the batch are and whatever became
\* of them.
C10_ItemDependsOnlyOnKey ==
    pc = "keydone" =>
       LET parts == Split(keys[idx])
           identities == IdentitiesOfKey(parts)
       IN /\ item = ItemFor(keys[idx], [n \in 1..Len(calls) |-> calls[n].ans])
          /\ Len(calls) <= 2
          /\ Len(calls) = 2 => calls[1].ans.err # NoError
          /\ \A n \in 1..Len(calls) :
                /\ calls[n].ref = parts[1]
                /\ calls[n].ctx.timeout = timeout
                /\ calls[n].opts.Identities = identities
                /\ calls[n].opts.TrustedMaterial = trustedRoot
                /\ calls[n].opts.ExperimentalOCI11 = (n = 1 /\ useReferrers)
                /\ calls[n].opts.NewBundleFormat = (n = 1)
                /\ Segment(parts, 2) \in {EmptyString, <<"[]">>} =>
                      /\ calls[n].opts.RegistryClientOpts = vKeychain
                      /\ k8sCalls = <<>>

\* the second key of a batch gets a value after a different first key, with an
\* identity of its own, failed
C10_Witness ==
    /\ pc = "keydone"
    /\ idx = 2
    /\ keys = <<KeyFull, KeyBare>>
    /\ items[1].Error # EmptyString
    /\ item.Value # EmptyString
    /\ calls[1].opts.Identities = <<>>

\* the processing of the key at idx has passed credential resolution
Started == pc \in {"modern", "legacy", "keydone"}

RefParses(key) == ParseReference(Split(key)[1]).err = NoError

\* b is a JSON list whose elements are all strings
ValidStringList(b) ==
    b.ok /\ b.v.k = "arr" /\ \A i \in 1..Len(b.v.a) : b.v.a[i].k = "str"

\* key has a second segment that is not a valid JSON list of strings
Malformed(key) ==
    /\ Segment(Split(key), 2) # EmptyString
    /\ ~ValidStringList(SecretListJSON(Segment(Split(key), 2)))

\* C11 as claimed: a key whose second segment is not a valid JSON list of
\* strings is processed with an empty secret list: the Kubernetes API is not
\* called, the default keychain is used and the key goes on to verification.
C11_MalformedListIsEmptyList ==
    (Started /\ Malformed(keys[idx])) =>
       /\ k8sCalls = <<>>
       /\ RefParses(keys[idx]) =>
             /\ checkOpts.RegistryClientOpts = vKeychain
             /\ pc = "keydone" => calls # <<>>

IsGet(c) == c.fn = "Secrets.Get"
Succeeded(c) == c.ok

\* the calls Secrets.Get made for the key, in order
Gets == SelectSeq(k8sCalls, IsGet)

\* the connection to the Kubernetes API was made
Connected ==
    \E n \in 1..Len(k8sCalls) : k8sCalls[n].fn = "NewForConfig" /\ k8sCalls[n].ok

BuildFailed ==
    \E n \in 1..Len(k8sCalls) :
       k8sCalls[n].fn = "NewFromPullSecrets" /\ ~k8sCalls[n].ok

\* the keychain made of the secrets that were fetched, before the default one
FetchedKeychain ==
    LET got == SelectSeq(Gets, Succeeded) IN
    [i \in 1..Len(got) |-> [kind |-> "secret", name |-> got[i].arg]] \o vKeychain

\* C12: credential resolution never fails a key.  Every secret name is
\* fetched, whether or not an earlier fetch failed; the key is verified with
\* the fetched secrets followed by the default source, and with the default
\* source alone when no secret was fetched, the connection could not be made
\* or the keychain could not be built; a key whose reference parses always
\* reaches the verifier.
C12_CredentialResolutionNeverFails ==
    Started =>
       LET names == SecretNamesOf(keys[idx]) IN
       /\ Connected => [i \in 1..Len(Gets) |-> Gets[i].arg] = names
       /\ ~Connected => Gets = <<>>
       /\ RefParses(keys[idx]) =>
             /\ checkOpts.RegistryClientOpts =
                   IF ~Connected \/ BuildFailed \/ SelectSeq(Gets, Succeeded) = <<>>
                   THEN vKeychain
                   ELSE FetchedKeychain
             /\ pc = "keydone" => calls # <<>>
             /\ \A n \in 1..Len(calls) :
                   calls[n].opts.RegistryClientOpts = checkOpts.RegistryClientOpts

\* the first of two secrets could not be fetched, the second one could, and
\* the key was verified with it and got its value
C12_Witness ==
    /\ pc = "keydone"
    /\ keys[idx] = KeyTwoSecrets
    /\ Len(Gets) = 2
    /\ ~Gets[1].ok
    /\ Gets[2].ok
    /\ checkOpts.RegistryClientOpts = <<[kind |-> "secret", name |-> <<"s2">>]>> \o vKeychain
    /\ item.Value # EmptyString

\* every secret failed to be fetched and the key still got its value
C12_WitnessAllFail ==
    /\ pc = "keydone"
    /\ keys[idx] = KeyTwoSecrets
    /\ Len(Gets) = 2
    /\ ~Gets[1].ok
    /\ ~Gets[2].ok
    /\ item.Value # EmptyString

\* the text of field n of JSON object o, "" when it is missing, null or empty
TextOf(o, n) ==
    IF o.k = "obj" /\ n \in DOMAIN o.f /\ o.f[n].k = "str" THEN o.f[n].s
    ELSE EmptyString

\* the elements of array field n of the document in payload
ElementsOf(n) ==
    IF n \in DOMAIN payload.v.f /\ payload.v.f[n].k = "arr" THEN payload.v.f[n].a
    ELSE <<>>

\* C13: SPDX normalization gives every package the license licenseConcluded
\* when that is non-empty, otherwise licenseDeclared, otherwise the empty
\* string, package by package and for every combination of the two fields.
C13_SPDXLicenseResolution ==
    pc = "spdx" =>
       LET pkgs == ElementsOf("packages") IN
       /\ result.err = NoError
       /\ result.sbom.Format = <<"spdx">>
       /\ Len(result.sbom.Packages) = Len(pkgs)
       /\ \A i \in 1..Len(pkgs) :
             result.sbom.Packages[i].License =
                IF TextOf(pkgs[i], "licenseConcluded") # EmptyString
                THEN TextOf(pkgs[i], "licenseConcluded")
                ELSE IF TextOf(pkgs[i], "licenseDeclared") # EmptyString
                     THEN TextOf(pkgs[i], "licenseDeclared")
                     ELSE EmptyString

\* the two packages of TestExtractAndNormalizeSPDX_LicenseFallback
C13_Witness ==
    /\ pc = "spdx"
    /\ Len(ElementsOf("packages")) = 2
    /\ TextOf(ElementsOf("packages")[1], "licenseConcluded") = EmptyString
    /\ TextOf(ElementsOf("packages")[1], "licenseDeclared") = <<"BSD-3-Clause">>
    /\ TextOf(ElementsOf("packages")[2], "licenseConcluded") = <<"Apache-2.0">>
    /\ TextOf(ElementsOf("packages")[2], "licenseDeclared") = <<"MIT">>
    /\ result.sbom.Packages[1].License = <<"BSD-3-Clause">>
    /\ result.sbom.Packages[2].License = <<"Apache-2.0">>

\* the license object of entry e of "licenses", an empty object when it has none
LicenseOf(e) ==
    IF e.k = "obj" /\ "license" \in DOMAIN e.f /\ e.f["license"].k = "obj"
    THEN e.f["license"]
    ELSE JNull

\* C14: CycloneDX normalization gives every component the id of its first
\* license entry when that is non-empty, otherwise the name of that entry when
\* non-empty, otherwise the empty string; a component without license entries
\* gets the empty string and no entry after the first one matters.
C14_CycloneDXLicenseResolution ==
    pc = "cyclonedx" =>
       LET comps == ElementsOf("components") IN
       /\ result.err = NoError
       /\ result.sbom.Format = <<"cyclonedx">>
       /\ Len(result.sbom.Packages) = Len(comps)
       /\ \A i \in 1..Len(comps) :
             LET entries == IF "licenses" \in DOMAIN comps[i].f
                            THEN comps[i].f["licenses"].a ELSE <<>>
             IN result.sbom.Packages[i].License =
                   IF entries = <<>> THEN EmptyString
                   ELSE IF TextOf(LicenseOf(entries[1]), "id") # EmptyString
                        THEN TextOf(LicenseOf(entries[1]), "id")
                        ELSE TextOf(LicenseOf(entries[1]), "name")

\* a first entry with an empty id and a name, followed by an entry with an id
C14_Witness ==
    /\ pc = "cyclonedx"
    /\ Len(ElementsOf("components")) = 1
    /\ "licenses" \in DOMAIN ElementsOf("components")[1].f
    /\ LET entries == ElementsOf("components")[1].f["licenses"].a IN
       /\ Len(entries) = 2
       /\ LicenseOf(entries[1]) = JObj(("id" :> JStr(EmptyString))
                                       @@ ("name" :> JStr(<<"Custom License">>)))
       /\ TextOf(LicenseOf(entries[2]), "id") = <<"MIT">>
    /\ result.sbom.Packages[1].License = <<"Custom License">>

\* b has a field "payload" holding a non-empty text
HasPayloadField(b) ==
    /\ b.ok
    /\ b.v.k = "obj"
    /\ "payload" \in DOMAIN b.v.f
    /\ b.v.f["payload"].k = "str"
    /\ b.v.f["payload"].s # EmptyString

\* C15 as claimed: for every statement, the statement wrapped in an envelope
\* whose payload is its base64 encoding and the statement bare give the same
\* outcome.
C15_Claimed ==
    pc = "extracted" =>
       \A b \in StatementSamples :
          payload = Envelope(b) => result = extractSBOMFromAttestation(b)

\* C15, amended: for every statement that has no non-empty text field named
\* "payload" of its own, the statement wrapped in an envelope whose payload is
\* its base64 encoding and the statement bare give the same outcome: the same
\* UnifiedSBOM, the same (no SBOM, no error), or the same error.
C15_EnvelopeRoundTrip ==
    pc = "extracted" =>
       \A b \in StatementSamples :
          (payload = Envelope(b) /\ ~HasPayloadField(b))
             => result = extractSBOMFromAttestation(b)

\* the statement of TestExtractSBOMFromAttestation_DSSE in its envelope
C15_Witness ==
    /\ pc = "extracted"
    /\ payload = Envelope(Stmt(<<"https://spdx.dev/Document/v2.3">>, SPDXCurl))
    /\ result.nonNil
    /\ result.err = NoError
    /\ result.sbom.Format = <<"spdx">>
    /\ Len(result.sbom.Packages) = 1
    /\ result.sbom.Packages[1].Name = <<"curl">>
    /\ result = extractSBOMFromAttestation(Stmt(<<"https://spdx.dev/Document/v2.3">>,
                                                SPDXCurl))

\* what parsing bytes b as a bare statement gives
BareExtract(b) ==
    LET statement == UnmarshalStatement(b) IN
    IF statement.err
    THEN [nonNil |-> FALSE, sbom |-> NilSBOM,
          err |-> <<"failed to parse attestation statement: ">> \o JSONError]
    ELSE Dispatch(statement)

\* C19 as claimed: the envelope step never fails extraction.  The inner bytes
\* are parsed when the input parses as an envelope and its payload decodes as
\* base64; in every other case, a payload that is not base64 included, the
\* input itself is parsed as a bare statement.
C19_UnwrapNeverFails ==
    pc = "extracted" =>
       LET envelope == UnmarshalEnvelope(payload)
           decoded == DecodeString(envelope.Payload)
       IN result = BareExtract(IF /\ ~envelope.err
                                  /\ envelope.Payload.s # EmptyString
                                  /\ decoded.ok
                               THEN decoded.bytes
                               ELSE payload)

\* C20 as claimed: a key is split on "|" into at most four segments, so the
\* issuer the verifier is asked to accept for a key with more than three "|"
\* is everything after the third one, further "|" included.
C20_IssuerIsRemainder ==
    (/\ Started
     /\ RefParses(keys[idx])
     /\ Len(SplitN(keys[idx], 4)) = 4) =>
       LET parts == SplitN(keys[idx], 4) IN
       /\ Len(checkOpts.Identities) = 1
       /\ checkOpts.Identities[1].Subject = parts[3]
       /\ checkOpts.Identities[1].Issuer = parts[4]
       /\ \A n \in 1..Len(calls) : calls[n].opts.Identities = checkOpts.Identities

(***************************************************************************)
(* C16: a request whose method is not POST is answered 405 and a request   *)
(* whose body is not a provider request is answered 400; either answer is  *)
(* given straight from the idle handler, and with it no key of the request *)
(* has been taken up: no key list, no item, no per-key context, no call to *)
(* the verifier and no call to the Kubernetes API.                         *)
(***************************************************************************)
Rejected == status \in {400, 405}

C16_State ==
    Rejected =>
       /\ pc = "done"
       /\ keys = <<>>
       /\ idx = 0
       /\ items = <<>>
       /\ ctx = NoContext
       /\ checkOpts = NoCheckOpts
       /\ item = NoItem
       /\ calls = <<>>
       /\ extracted = <<>>
       /\ k8sCalls = <<>>

C16_Step ==
    /\ (~Rejected /\ Rejected') => (pc = "idle" /\ UNCHANGED perKey)
    /\ (pc = "idle" /\ pc' = "loop") => status' = 0

C16_RejectedRequestProcessesNoKey == []C16_State /\ [][C16_Step]_vars

\* an unparseable body has been answered with 400
C16_Witness == pc = "done" /\ status = 400 /\ rootFetches = 1

\* a GET has been answered with 405
C16_WitnessMethod == pc = "done" /\ status = 405 /\ rootFetches = 1

(***************************************************************************)
(* C18: when the first verification attempt of a key returns an error of   *)
(* any kind, exactly one further attempt is made, with the referrers       *)
(* lookup and the new bundle format both disabled and with the reference,  *)
(* credential source, identity constraints, trusted root and context of    *)
(* the first; there is never a third attempt, and no second one after a    *)
(* first attempt that returned no error.                                   *)
(***************************************************************************)
FirstAttemptFailed == calls # <<>> /\ calls[1].ans.err # NoError

C18_OneFallbackAttempt ==
    /\ Len(calls) <= 2
    /\ pc = "legacy" => (FirstAttemptFailed /\ Len(calls) = 1)
    /\ (pc = "keydone" /\ FirstAttemptFailed) => Len(calls) = 2
    /\ Len(calls) = 2 =>
          /\ FirstAttemptFailed
          /\ calls[2].opts.ExperimentalOCI11 = FALSE
          /\ calls[2].opts.NewBundleFormat = FALSE
          /\ calls[2].opts =
                [calls[1].opts EXCEPT !.ExperimentalOCI11 = FALSE,
                                      !.NewBundleFormat = FALSE]
          /\ calls[2].ref = calls[1].ref
          /\ calls[2].ctx.timeout = calls[1].ctx.timeout

\* with the referrers lookup enabled and an identity constraint, the first
\* attempt found no matching attestation and the fallback attempt gave the SBOM
C18_Witness ==
    /\ pc = "keydone"
    /\ Len(calls) = 2
    /\ calls[1].opts.ExperimentalOCI11
    /\ calls[1].opts.Identities # <<>>
    /\ calls[1].ans.err = ErrNoMatchingAttestations
    /\ calls[2].ans.err = NoError
    /\ item.Value # EmptyString

\* the first attempt ran into the deadline of the key's context
C18_WitnessDeadline ==
    /\ pc = "keydone"
    /\ Len(calls) = 2
    /\ calls[1].ans.err = DeadlineExceeded

(***************************************************************************)
(* C17 as claimed: in a process started without USE_REFERRERS_API the      *)
(* referrers lookup is enabled (the documented default is true), so the    *)
(* first verification attempt of a key uses it and only the fallback       *)
(* attempt does not.                                                       *)
(***************************************************************************)
C17_ReferrersFirstByDefault ==
    (referrersEnv = EmptyString /\ calls # <<>>) =>
       /\ calls[1].opts.ExperimentalOCI11 = TRUE
       /\ Len(calls) = 2 => calls[2].opts.ExperimentalOCI11 = FALSE

\* what the code does: the lookup is enabled exactly when the variable is the
\* text true, and the first attempt follows that setting
C17_ReferrersOnlyWhenTrue ==
    calls # <<>> =>
       /\ calls[1].opts.ExperimentalOCI11 = (referrersEnv = <<"true">>)
       /\ Len(calls) = 2 => calls[2].opts.ExperimentalOCI11 = FALSE

(***************************************************************************)
(* C21: the subject (respectively the issuer) of the identity constraint   *)
(* handed to the verifier is the parameter of the call whenever that       *)
(* parameter is not empty, and otherwise the key's third (respectively     *)
(* fourth) segment when the key has one, and empty when it has not; the    *)
(* constraint is left out when both are empty.  A key with fewer than four *)
(* segments whose reference parses always reaches the verifier: the only   *)
(* error raised before the first attempt is that of the reference.         *)
(***************************************************************************)
ConstraintOf(param, parts, n) ==
    IF param # EmptyString THEN param
    ELSE IF Len(parts) >= n THEN parts[n]
    ELSE EmptyString

C21_ParameterTakesPrecedence ==
    pc \in {"modern", "legacy", "keydone"} =>
       LET parts == SplitN(keys[idx], 4)
           subject == ConstraintOf(certIdentity, parts, 3)
           issuer == ConstraintOf(certOidcIssuer, parts, 4)
       IN IF RefParses(keys[idx])
          THEN /\ item.Error # <<"failed to parse image reference: ">>
                                  \o ParseReference(parts[1]).err
               /\ checkOpts.Identities =
                     IF subject = EmptyString /\ issuer = EmptyString
                     THEN <<>>
                     ELSE <<[Issuer |-> issuer, Subject |-> subject]>>
               /\ \A n \in 1..Len(calls) :
                     calls[n].opts.Identities = checkOpts.Identities
               /\ pc = "keydone" => calls # <<>>
          ELSE calls = <<>>

\* both parameters differ from the segments of a four-segment key, and the
\* verifier has been asked with the parameters
C21_Witness ==
    /\ pc = "keydone"
    /\ keys[idx] = KeyFull
    /\ certIdentity = <<"param@example.com">>
    /\ certOidcIssuer = <<"https://param-issuer">>
    /\ calls # <<>>
    /\ calls[1].opts.Identities =
          <<[Issuer |-> <<"https://param-issuer">>,
             Subject |-> <<"param@example.com">>]>>

\* the parameters are empty and the key has three segments: the subject comes
\* from the key, the issuer is empty, and the verifier has been asked
C21_WitnessMissingSegment ==
    /\ pc = "keydone"
    /\ keys[idx] = KeyThreeSegments
    /\ certIdentity = EmptyString
    /\ certOidcIssuer = EmptyString
    /\ calls # <<>>
    /\ calls[1].opts.Identities =
          <<[Issuer |-> EmptyString, Subject |-> <<"u@example.com">>]>>

(***************************************************************************)
(* C22: for a key whose secret-name list is empty, credential resolution   *)
(* makes no call to the Kubernetes API (no in-cluster configuration, no    *)
(* client, no secret fetch) and verification runs with the process-default *)
(* keychain itself.                                                        *)
(***************************************************************************)
C22_EmptyListIsCheapPath ==
    (Started /\ SecretNamesOf(keys[idx]) = <<>>) =>
       /\ k8sCalls = <<>>
       /\ RefParses(keys[idx]) =>
             /\ checkOpts.RegistryClientOpts = vKeychain
             /\ pc = "keydone" => calls # <<>>
             /\ \A n \in 1..Len(calls) :
                   calls[n].opts.RegistryClientOpts = vKeychain

\* a key with the empty list [] was verified with the default keychain and no
\* call to the Kubernetes API
C22_Witness ==
    /\ pc = "keydone"
    /\ keys[idx] = KeyNoSecrets
    /\ k8sCalls = <<>>
    /\ calls # <<>>
    /\ calls[1].opts.RegistryClientOpts = DefaultKeychain
    /\ item.Value # EmptyString

(***************************************************************************)
(* C23 as claimed: whenever at least one named secret was fetched, the key *)
(* is verified with the fetched secrets, in the order of their names,      *)
(* followed by the default keychain.                                       *)
(***************************************************************************)
SomeFetched == SelectSeq(Gets, Succeeded) # <<>>

C23_Claimed ==
    (Started /\ RefParses(keys[idx]) /\ SomeFetched) =>
       checkOpts.RegistryClientOpts = FetchedKeychain

(***************************************************************************)
(* C23: whenever at least one named secret was fetched and a keychain      *)
(* could be built from the fetched secrets, the key is verified with the   *)
(* fetched secrets only, in the order of their names, followed by the      *)
(* default keychain as the last source; when the keychain could not be     *)
(* built, with the default keychain alone.                                 *)
(***************************************************************************)
C23_FetchedSecretsBeforeDefault ==
    (Started /\ RefParses(keys[idx]) /\ SomeFetched) =>
       LET kc == checkOpts.RegistryClientOpts
           got == SelectSeq(Gets, Succeeded)
       IN /\ BuildFailed => kc = vKeychain
          /\ ~BuildFailed =>
                /\ Len(kc) = Len(got) + Len(vKeychain)
                /\ \A i \in 1..Len(got) :
                      /\ kc[i] = [kind |-> "secret", name |-> got[i].arg]
                      /\ got[i].arg \in {SecretNamesOf(keys[idx])[j] :
                                             j \in 1..Len(SecretNamesOf(keys[idx]))}
                /\ SubSeq(kc, Len(got) + 1, Len(kc)) = vKeychain
          /\ \A n \in 1..Len(calls) : calls[n].opts.RegistryClientOpts = kc

\* both secrets of a key were fetched and the key was verified with s1, s2
\* and the default keychain, in that order
C23_Witness ==
    /\ pc = "keydone"
    /\ keys[idx] = KeyTwoSecrets
    /\ calls # <<>>
    /\ calls[1].opts.RegistryClientOpts =
          <<[kind |-> "secret", name |-> <<"s1">>],
            [kind |-> "secret", name |-> <<"s2">>]>> \o DefaultKeychain
    /\ item.Value # EmptyString

\* a secret was fetched, the keychain could not be built from it, and the key
\* was verified with the default keychain
C23_WitnessBuildFailed ==
    /\ pc = "keydone"
    /\ SomeFetched
    /\ BuildFailed
    /\ calls # <<>>
    /\ calls[1].opts.RegistryClientOpts = DefaultKeychain

(***************************************************************************)
(* C24: root.FetchTrustedRoot is called exactly once, while the verifier   *)
(* is constructed and before any request is read; when it fails the        *)
(* process exits without having served a request; afterwards the material  *)
(* is never fetched again or replaced, and every verification attempt of   *)
(* every key is made with it.                                              *)
(***************************************************************************)
C24_State ==
    /\ rootFetches = (IF pc = "boot" THEN 0 ELSE 1)
    /\ pc \in {"boot", "exited"} =>
          /\ trustedRoot = EmptyString
          /\ status = 0
          /\ keys = <<>>
          /\ items = <<>>
          /\ calls = <<>>
    /\ pc \notin {"boot", "exited"} =>
          /\ trustedRoot = SigstoreRoot
          /\ \A n \in 1..Len(calls) : calls[n].opts.TrustedMaterial = trustedRoot
          /\ pc \in {"modern", "legacy"} => checkOpts.TrustedMaterial = trustedRoot

C24_Step ==
    /\ pc # "boot" => UNCHANGED <<trustedRoot, rootFetches>>
    /\ pc = "exited" => UNCHANGED vars

C24_TrustedRootFetchedOnce == []C24_State /\ [][C24_Step]_vars

\* the second key of a batch has been verified in two attempts, both with the
\* material of the one fetch made at startup
C24_Witness ==
    /\ pc = "keydone"
    /\ idx = 2
    /\ rootFetches = 1
    /\ Len(calls) = 2
    /\ calls[1].opts.TrustedMaterial = SigstoreRoot
    /\ calls[2].opts.TrustedMaterial = SigstoreRoot

\* the fetch failed and the process has exited
C24_WitnessFetchFailed == pc = "exited" /\ rootFetches = 1

(***************************************************************************)
(* C25: each normalizer gives one output package per element of the input  *)
(* list (packages for SPDX, components for CycloneDX), in the order of the *)
(* document: the i-th output package has the name and the version of the   *)
(* i-th element, so an element that repeats an earlier one is repeated in  *)
(* the output and none is left out.                                        *)
(***************************************************************************)
C25_OnePackagePerEntryInOrder ==
    /\ pc = "spdx" =>
          LET pkgs == ElementsOf("packages") IN
          /\ result.err = NoError
          /\ Len(result.sbom.Packages) = Len(pkgs)
          /\ \A i \in 1..Len(pkgs) :
                /\ result.sbom.Packages[i].Name = TextOf(pkgs[i], "name")
                /\ result.sbom.Packages[i].Version = TextOf(pkgs[i], "versionInfo")
    /\ pc = "cyclonedx" =>
          LET comps == ElementsOf("components") IN
          /\ result.err = NoError
          /\ Len(result.sbom.Packages) = Len(comps)
          /\ \A i \in 1..Len(comps) :
                /\ result.sbom.Packages[i].Name = TextOf(comps[i], "name")
                /\ result.sbom.Packages[i].Version = TextOf(comps[i], "version")

\* an SPDX document that lists the same package twice gives it twice
C25_Witness ==
    /\ pc = "spdx"
    /\ Len(ElementsOf("packages")) = 2
    /\ ElementsOf("packages")[1] = ElementsOf("packages")[2]
    /\ Len(result.sbom.Packages) = 2
    /\ result.sbom.Packages[1] = result.sbom.Packages[2]
    /\ result.sbom.Packages[1].Name = <<"curl">>

\* a CycloneDX document with express before curl gives them in that order
C25_WitnessOrder ==
    /\ pc = "cyclonedx"
    /\ Len(result.sbom.Packages) = 2
    /\ result.sbom.Packages[1].Name = <<"express">>
    /\ result.sbom.Packages[2].Name = <<"curl">>

(***************************************************************************)
(* C26: the legacy attempt is made if and only if the first attempt        *)
(* returned an error.  A first attempt that returns no error and an empty  *)
(* attestation set ends the key: its item carries the error "no            *)
(* attestations found" and no value, and there is no second attempt.       *)
(***************************************************************************)
FirstAttemptEmpty ==
    calls # <<>> /\ calls[1].ans.err = NoError /\ calls[1].ans.atts = <<>>

C26_LegacyOnlyAfterError ==
    /\ pc = "legacy" => FirstAttemptFailed
    /\ (pc = "keydone" /\ calls # <<>>) =>
          (Len(calls) = 2 <=> calls[1].ans.err # NoError)
    /\ FirstAttemptEmpty =>
          /\ pc = "keydone"
          /\ Len(calls) = 1
          /\ item.Key = keys[idx]
          /\ item.Value = EmptyString
          /\ item.Error = FailedPrefix \o <<"no attestations found">>

\* with the referrers lookup enabled the first attempt returned an empty set
\* without error, and the key has failed after that one attempt
C26_Witness ==
    /\ pc = "keydone"
    /\ FirstAttemptEmpty
    /\ calls[1].opts.ExperimentalOCI11
    /\ Len(calls) = 1
    /\ item.Error = FailedPrefix \o <<"no attestations found">>

====
